---- MODULE Spec2Model ----
(***************************************************************************)
(* PixelProof: the Figma integration subsystem.                            *)
(*   - frame extraction (api/figma/frames/route.ts)                        *)
(*   - OAuth start / callback (api/figma/start, api/figma/callback)        *)
(*   - token refresh (lib/figma.ts)                                        *)
(*   - baseline snapshot upsert (lib/figma-baseline.ts)                    *)
(***************************************************************************)
EXTENDS Integers, Sequences, FiniteSets, TLC

VARIABLES
    framesPc,     \* GET /api/figma/frames: "idle", "checked", "fetched",
                  \* "extracted", "responded"
    document,     \* the document of the fetched Figma file
    extracted,    \* result of extractFramesFromDocument
    framesResponse, \* what GET /api/figma/frames answered
    framesRequest,  \* who sent it, for which project, and whether it led to
                    \* a request to api.figma.com
    projectFrame, \* Project.figmaFrameId of every project ("none": NULL)
    snapshots,    \* committed rows of the BaselineSnapshot table
    nextSnapshotId, \* ids handed out so far (ids and createdAt grow together)
    runs,         \* createBaselineSnapshotForProject invocations
    raced,        \* (project, frame) pairs whose transactions overlapped
    putResponse,  \* the latest response of PUT /api/projects/[id]/figma
    env,          \* process.env: client id, client secret, encryption key
    now,          \* Date.now(), in milliseconds
    jar,          \* the browser's cookies figma_oauth_csrf, figma_oauth_return_to
    issued,       \* state payloads that Start has put in an authorization URL
    callbacks,    \* GET /api/figma/callback requests
    credentials,  \* rows of the FigmaCredential table
    nextCredentialId, \* FigmaCredential ids handed out so far
    tokenCalls,   \* requests the provider's token endpoint has received
    starts,       \* responses of the GET /api/figma/start requests so far
    refreshers,   \* getFigmaAccessToken invocations
    crypto,       \* one encrypt / decrypt exchange of lib/crypto
    components    \* one extractComponentsFromNode call of lib/baseline

framesVars == <<framesPc, document, extracted, framesResponse, framesRequest>>

baselineVars == <<projectFrame, snapshots, nextSnapshotId, runs, raced, putResponse>>

oauthVars == <<env, now, jar, issued, callbacks, credentials,
               nextCredentialId, tokenCalls>>

\* The state of the library functions exercised on their own.
libraryVars == <<crypto, components>>

\* What the handlers of one subsystem leave alone.
notFrames == <<baselineVars, oauthVars, starts, refreshers, libraryVars>>
notBaseline == <<framesVars, oauthVars, starts, refreshers, libraryVars>>
notOAuth == <<framesVars, baselineVars, starts, refreshers, libraryVars>>
notLibrary == <<framesVars, baselineVars, oauthVars, starts, refreshers>>

vars == <<framesPc, document, extracted, framesResponse, framesRequest,
          projectFrame, snapshots, nextSnapshotId, runs, raced, putResponse,
          env, now, jar, issued, callbacks, credentials,
          nextCredentialId, tokenCalls, starts, refreshers, crypto, components>>

None == "none"

Max(a, b) == IF a >= b THEN a ELSE b

Min(a, b) == IF a <= b THEN a ELSE b

(***************************************************************************)
(* ------------------------- FRAME EXTRACTION --------------------------- *)
(***************************************************************************)

MAX_TRAVERSAL_DEPTH == 10

MAX_FRAMES == 500

\* Bounds of the documents the model feeds to the extraction.
MaxSiblings == 501
MaxChain == 12

\* Dimensions are kept in quarter pixels so that fractional sizes and
\* Math.round are modelled: 4 quarter pixels = 1 px.
\* Math.round for a non-negative number of quarter pixels: floor(x + 0.5).
MathRound(q) == (q + 2) \div 4

\* A FigmaNode.  hasChildren = FALSE models a missing children array.
Node(id, type, box, hasChildren, children) ==
    [id |-> id, type |-> type, box |-> box,
     hasChildren |-> hasChildren, children |-> children]

Box(w, h) == [present |-> TRUE, width |-> w, height |-> h]

\* A missing absoluteBoundingBox.
NoBox == [present |-> FALSE, width |-> 0, height |-> 0]

\* A null entry in a children array: every property access on it throws.
NullShape == [type |-> "null", box |-> NoBox]

IsNull(node) == node.type = "null"

\* ---- node shapes used to build small documents ----
Shapes ==
    { [type |-> "FRAME",     box |-> Box(400, 240)],   \* 100 x 60 px
      [type |-> "FRAME",     box |-> Box(0, 240)],     \* zero width
      [type |-> "FRAME",     box |-> Box(402, 0)],     \* zero height
      [type |-> "FRAME",     box |-> NoBox],            \* no bounding box
      [type |-> "FRAME",     box |-> Box(1, 6)],       \* 0.25 x 1.5 px
      [type |-> "COMPONENT", box |-> Box(400, 240)],
      [type |-> "GROUP",     box |-> NoBox] }

ValidFrameShape == [type |-> "FRAME", box |-> Box(400, 240)]

Repeat(x, n) == [i \in 1..n |-> x]

\* A tree without ids: [shape, kids].
Tree(shape, kids) == [shape |-> shape, kids |-> kids]

NullNode == Tree(NullShape, <<>>)

RECURSIVE ChainTree(_)
ChainTree(d) ==
    IF d = 0 THEN <<>>
    ELSE <<Tree(ValidFrameShape, ChainTree(d - 1))>>

\* Assign ids (the path from the root) to a tree without ids.
RECURSIVE Label(_, _)
Label(t, path) ==
    Node(path, t.shape.type, t.shape.box, ~IsNull(t.shape),
         [i \in 1..Len(t.kids) |-> Label(t.kids[i], Append(path, i))])

Page(kids) == Tree([type |-> "CANVAS", box |-> NoBox], kids)

Doc(pages) == Label(Tree([type |-> "DOCUMENT", box |-> NoBox], pages), <<>>)

Leaves == {Tree(s, <<>>) : s \in Shapes} \cup {NullNode}

SmallTrees ==
    Leaves \cup {Tree(ValidFrameShape, <<l>>) : l \in Leaves}
           \cup {Tree([type |-> "GROUP", box |-> NoBox], <<l>>) : l \in Leaves}

SmallDocs ==
    {Doc(<<Page(<<a>>)>>) : a \in SmallTrees}
    \cup {Doc(<<Page(<<a, b>>)>>) : a \in Leaves, b \in SmallTrees}
    \cup {Doc(<<Page(<<a>>), t>>) : a \in Leaves, t \in Leaves}
    \cup {Doc(<<t, Page(<<a>>)>>) : a \in Leaves, t \in Leaves}

\* Documents that reach the ceilings.
WideCounts == {0, MAX_FRAMES - 1, MAX_FRAMES} \cup (MAX_FRAMES + 1)..MaxSiblings

WideDocs ==
    {Doc(<<Page(Repeat(Tree(ValidFrameShape, <<>>), n))>>) : n \in WideCounts}
    \cup {Doc(<<Page(<<Tree(ValidFrameShape,
                            Repeat(Tree(ValidFrameShape, <<>>), n))>>)>>) :
            n \in WideCounts}
    \cup {Doc(<<Page(Repeat(Tree(ValidFrameShape, <<>>), MAX_FRAMES - 1)),
                Page(Repeat(Tree(ValidFrameShape, <<>>), n))>>) : n \in 0..2}
    \cup {Doc(<<Page(Repeat(Tree(ValidFrameShape, <<>>), MAX_FRAMES)),
                Page(<<Tree(ValidFrameShape, <<>>)>>)>>)}

ChainDocs == {Doc(<<Page(ChainTree(d))>>) : d \in 0..MaxChain}

\* A document without a children array.
EmptyDoc == Node(<<>>, "DOCUMENT", NoBox, FALSE, <<>>)

NoDocument == Node(<<>>, "none", NoBox, FALSE, <<>>)

Documents == SmallDocs \cup WideDocs \cup ChainDocs \cup {EmptyDoc}

\* Every node of a (sub)tree, the null entries left out.
RECURSIVE NodesOf(_)
NodesOf(n) ==
    IF IsNull(n) THEN {}
    ELSE IF ~n.hasChildren THEN {n}
    ELSE {n} \cup UNION {NodesOf(n.children[i]) : i \in 1..Len(n.children)}

\* ---- collectFrames ----
\* The accumulator is the shared `frames` array; `deepest` records the
\* greatest depth at which a node was examined (-1: none yet); `threw` is
\* set while an exception is travelling up to the nearest catch.
Acc(frames, deepest) ==
    [frames |-> frames, deepest |-> deepest, threw |-> FALSE]

\* A property access on a null entry: TypeError.
Threw(acc) == [acc EXCEPT !.threw = TRUE]

\* The catch block of the children loop logs child.id and child.name: for a
\* null child that access throws again, out of the loop and of the call.
Caught(child, acc) ==
    IF IsNull(child) THEN acc ELSE [acc EXCEPT !.threw = FALSE]

\* Mutant: the depth ceiling off by one.
DepthExceededOffByOne(depth) == depth > MAX_TRAVERSAL_DEPTH + 1

\* Mutant: the depth ceiling cuts at the ceiling itself.
DepthExceededAtCeiling(depth) == depth >= MAX_TRAVERSAL_DEPTH

DepthExceeded(depth) == depth > MAX_TRAVERSAL_DEPTH

\* Mutant: the frame ceiling lets one more frame in.
FramesLimitReachedOffByOne(frames) == Len(frames) > MAX_FRAMES

FramesLimitReached(frames) == Len(frames) >= MAX_FRAMES

\* Mutant: a zero width passes the dimension test.
HasValidDimensionsNonStrict(box) ==
    /\ box.present
    /\ box.width >= 0
    /\ box.height > 0

HasValidDimensions(box) ==
    /\ box.present
    /\ box.width > 0
    /\ box.height > 0

IsFrame(node) == node.type = "FRAME"

FrameSummary(node, pageName, depth) ==
    [id       |-> node.id,
     pageName |-> pageName,
     width    |-> MathRound(node.box.width),
     height   |-> MathRound(node.box.height),
     depth    |-> depth]

RECURSIVE collectFrames(_, _, _, _)
RECURSIVE collectChildren(_, _, _, _, _, _)

\* Mutant: the children are visited last to first.
RECURSIVE collectChildrenReversed(_, _, _, _, _, _)
collectChildrenReversed(children, lo, hi, pageName, depth, acc) ==
    IF lo > hi THEN acc
    ELSE IF acc.threw THEN acc
    ELSE IF FramesLimitReached(acc.frames) THEN acc
    ELSE IF lo = hi
         THEN Caught(children[lo],
                     collectFrames(children[lo], pageName, depth + 1, acc))
    ELSE LET mid == (lo + hi) \div 2
         IN  collectChildrenReversed(children, lo, mid, pageName, depth,
                 collectChildrenReversed(children, mid + 1, hi, pageName,
                                         depth, acc))

\* for (const child of node.children) { if (full) break; try {...} catch {} }
\* over children[lo..hi], left to right.  The range is walked by halves (the
\* first half, then the second half on the first half's result) to keep the
\* evaluation shallow; the children are visited in the loop's order and the
\* break test runs before each child.  An exception that leaves the catch
\* block ends the loop.
collectChildren(children, lo, hi, pageName, depth, acc) ==
    IF lo > hi THEN acc
    ELSE IF acc.threw THEN acc
    ELSE IF FramesLimitReached(acc.frames) THEN acc
    ELSE IF lo = hi
         THEN Caught(children[lo],
                     collectFrames(children[lo], pageName, depth + 1, acc))
    ELSE LET mid == (lo + hi) \div 2
         IN  collectChildren(children, mid + 1, hi, pageName, depth,
                 collectChildren(children, lo, mid, pageName, depth, acc))

\* A null node throws on its first property access (node.name in the depth
\* warning, node.type otherwise); the shared array keeps what it held.  An
\* exception that left the children loop leaves this call too.
collectFrames(node, pageName, depth, acc) ==
    IF DepthExceeded(depth) THEN (IF IsNull(node) THEN Threw(acc) ELSE acc)
    ELSE IF FramesLimitReached(acc.frames) THEN acc
    ELSE IF IsNull(node) THEN Threw(acc)
    ELSE
        LET seen  == [acc EXCEPT !.deepest = Max(acc.deepest, depth)]
            after ==
                IF IsFrame(node) /\ HasValidDimensions(node.box)
                THEN [seen EXCEPT !.frames =
                         Append(seen.frames, FrameSummary(node, pageName, depth))]
                ELSE seen
        IN  IF node.hasChildren
            THEN collectChildren(node.children, 1, Len(node.children),
                                 pageName, depth, after)
            ELSE after

IsCanvas(page) == page.type = "CANVAS"

\* The page name is the page's id here: names play no part in the walk.
RECURSIVE collectPages(_, _, _)
collectPages(pages, i, acc) ==
    IF i > Len(pages) THEN acc
    ELSE IF FramesLimitReached(acc.frames) THEN acc
    ELSE IF IsNull(pages[i]) THEN acc   \* page.name throws: outer catch
    ELSE IF ~IsCanvas(pages[i]) THEN collectPages(pages, i + 1, acc)
    ELSE collectPages(pages, i + 1,       \* the page's catch logs pageName
                      [collectFrames(pages[i], pages[i].id, 0, acc)
                          EXCEPT !.threw = FALSE])

extractFramesFromDocument(doc) ==
    IF ~doc.hasChildren THEN Acc(<<>>, -1)
    ELSE collectPages(doc.children, 1, Acc(<<>>, -1))

(***************************************************************************)
(* ------------------------- BASELINE SNAPSHOTS ------------------------- *)
(***************************************************************************)

\* Bound: the number of createBaselineSnapshotForProject invocations.
MaxRuns == 2

Runs == 1..MaxRuns

\* p1 is linked to a Figma file, p2 is not, px does not exist.
Projects == {"p1", "p2"}
ProjectIds == Projects \cup {"px"}
FigmaFileKey(p) == IF p = "p1" THEN "file1" ELSE None
Frames == {"f1", "f2", "f3"}

NoTokens ==
    [family \in {"typography", "colors", "spacing", "radii", "shadows"} |-> {}]

Users == {"u1", "u2"}

\* Project -> Org -> Membership: u1 belongs to the org of p1, u2 to that of p2.
OrgOf(p) == IF p = "p1" THEN "org1" ELSE "org2"
Memberships == {<<"u1", "org1">>, <<"u2", "org2">>}

\* The document of file1 holds f1 and f2; f3 is no longer in the file.
FramesInFile == {"f1", "f2"}

\* settled: what the caller's promise chain made of the outcome (none for
\* an invocation whose promise nobody has chained on).
\* tokens: the five token families of the baseline data, by token name.
IdleRun ==
    [pc |-> "idle", projectId |-> None, figmaFrameId |-> None,
     existing |-> 0, result |-> 0, settled |-> None, failure |-> None,
     figmaData |-> None, tokens |-> NoTokens]

\* A BaselineSnapshot row; createdAt grows with the id.
SnapshotRow(id, projectId, fileKey, frameId, data) ==
    [id |-> id, projectId |-> projectId, figmaFileKey |-> fileKey,
     figmaFrameId |-> frameId, data |-> data, createdAt |-> id]

RowsFor(rows, projectId, frameId) ==
    {s \in rows : s.projectId = projectId /\ s.figmaFrameId = frameId}

\* Mutant: the existence check finds nothing.
findFirstNothing(rows, projectId, frameId) == 0

\* tx.baselineSnapshot.findFirst({where: {projectId, figmaFrameId},
\* orderBy: {createdAt: 'desc'}}): the id of the latest row, 0 when none.
findFirst(rows, projectId, frameId) ==
    LET found == RowsFor(rows, projectId, frameId)
    IN  IF found = {} THEN 0
        ELSE (CHOOSE s \in found : \A t \in found : t.createdAt <= s.createdAt).id

\* tx.baselineSnapshot.update({where: {id}, data: {data, figmaFileKey, figmaFrameId}})
updateSnapshot(rows, id, fileKey, frameId, data) ==
    {IF s.id = id
     THEN [s EXCEPT !.data = data, !.figmaFileKey = fileKey, !.figmaFrameId = frameId]
     ELSE s : s \in rows}

\* tx.baselineSnapshot.create({data: {projectId, figmaFileKey, figmaFrameId, data}})
createSnapshot(rows, id, projectId, fileKey, frameId, data) ==
    rows \cup {SnapshotRow(id, projectId, fileKey, frameId, data)}

\* Bound: the number of PUT /api/projects/[id]/figma requests.
MaxPuts == 2

\* The response of the seq-th PUT request; run is the background invocation
\* it started (0: none), runPc that invocation's position when the response
\* was returned.
PutResponse(seq, status, projectId, figmaFrameId, createBaseline, run, runPc) ==
    [seq |-> seq, status |-> status, projectId |-> projectId,
     figmaFrameId |-> figmaFrameId, createBaseline |-> createBaseline,
     run |-> run, runPc |-> runPc]

PutError(seq, status) == PutResponse(seq, status, None, None, FALSE, 0, None)

NoPutResponse == PutError(0, 0)

\* The requests put to the handler: <<session user, project id, frame id,
\* createBaseline, update throws>>, one for every way out of the handler
\* and every frame for the member of p1.  The empty frame id stands for a
\* body the schema rejects.
PutRequests ==
    { <<None, "p1", "f1", TRUE, FALSE>>,     \* no session
      <<"u1", "p1", "",   TRUE, FALSE>>,     \* invalid body
      <<"u1", "px", "f1", TRUE, FALSE>>,     \* no such project
      <<"u2", "p1", "f1", TRUE, FALSE>>,     \* not a member
      <<"u2", "p2", "f1", TRUE, FALSE>>,     \* no linked file
      <<"u1", "p1", "f1", TRUE, TRUE>> }     \* the update throws
    \cup {<<"u1", "p1", f, cb, FALSE>> : f \in Frames, cb \in BOOLEAN}

IdleRuns == {r \in Runs : runs[r].pc = "idle"}

\* PUT /api/projects/[id]/figma: session, body, project, membership and
\* file-key checks, prisma.project.update({figmaFrameId}), and with
\* createBaseline the call of createBaselineSnapshotForProject, whose promise
\* gets .then(log).catch(log) and is not awaited: the invocation is started
\* and the 200 is returned in the same turn.
PutFigmaFrame(user, p, f, createBaseline, updateThrows) ==
    /\ putResponse.seq < MaxPuts
    /\ IF user = None THEN
           /\ putResponse' = PutError(putResponse.seq + 1, 401)
           /\ UNCHANGED <<projectFrame, runs>>
       ELSE IF f = "" THEN
           /\ putResponse' = PutError(putResponse.seq + 1, 400)
           /\ UNCHANGED <<projectFrame, runs>>
       ELSE IF p \notin Projects THEN
           /\ putResponse' = PutError(putResponse.seq + 1, 404)
           /\ UNCHANGED <<projectFrame, runs>>
       ELSE IF <<user, OrgOf(p)>> \notin Memberships THEN
           /\ putResponse' = PutError(putResponse.seq + 1, 403)
           /\ UNCHANGED <<projectFrame, runs>>
       ELSE IF FigmaFileKey(p) = None THEN
           /\ putResponse' = PutError(putResponse.seq + 1, 400)
           /\ UNCHANGED <<projectFrame, runs>>
       ELSE IF updateThrows THEN
           /\ putResponse' = PutError(putResponse.seq + 1, 500)
           /\ UNCHANGED <<projectFrame, runs>>
       ELSE IF createBaseline THEN
           /\ IdleRuns # {}
           /\ LET r == CHOOSE x \in IdleRuns : \A y \in IdleRuns : x <= y
              IN  /\ runs' = [runs EXCEPT ![r].pc = "spawned",
                                          ![r].projectId = p,
                                          ![r].settled = "pending"]
                  /\ putResponse' = PutResponse(putResponse.seq + 1, 200, p, f,
                                                TRUE, r, runs'[r].pc)
           /\ projectFrame' = [projectFrame EXCEPT ![p] = f]
       ELSE
           /\ projectFrame' = [projectFrame EXCEPT ![p] = f]
           /\ putResponse' = PutResponse(putResponse.seq + 1, 200, p, f,
                                      FALSE, 0, None)
           /\ UNCHANGED runs
    /\ UNCHANGED <<snapshots, nextSnapshotId, raced, notBaseline>>

\* Step 1: load and validate the project.
\* The invocations are interchangeable: a direct call takes the first idle one.
BaselineLoad(r, p) ==
    /\ \/ runs[r].pc = "idle" /\ \A o \in IdleRuns : r <= o
       \/ runs[r].pc = "spawned" /\ runs[r].projectId = p
    /\ IF p \notin Projects
       THEN runs' = [runs EXCEPT ![r].pc = "failed", ![r].projectId = p,
                                 ![r].failure = "Project not found"]
       ELSE IF FigmaFileKey(p) = None
       THEN runs' = [runs EXCEPT ![r].pc = "failed", ![r].projectId = p,
                                 ![r].failure = "not linked to a Figma file"]
       ELSE IF projectFrame[p] = None
       THEN runs' = [runs EXCEPT ![r].pc = "failed", ![r].projectId = p,
                                 ![r].failure = "no Figma frame selected"]
       ELSE runs' = [runs EXCEPT ![r].pc = "loaded", ![r].projectId = p,
                                 ![r].figmaFrameId = projectFrame[p]]
    /\ UNCHANGED <<projectFrame, snapshots, nextSnapshotId, raced, putResponse, notBaseline>>

\* ---- step 4: the design tokens ----
\* file.styles and variables.meta.variables are walked with Object.entries.
\* A style is [styleType, name]; a variable is [resolvedType, name, named,
\* valuesByMode], where named tells what its name suggests ("spacing",
\* "radius" or "other") and valuesByMode is "number", "color" or "missing"
\* (the property is absent from the response).  A null entry has type "null".
Style(styleType, name) == [styleType |-> styleType, name |-> name]

Variable(resolvedType, name, named, valuesByMode) ==
    [resolvedType |-> resolvedType, name |-> name, named |-> named,
     valuesByMode |-> valuesByMode]

NullStyle == Style("null", None)

Extraction(threw, names) == [threw |-> threw, names |-> names]

\* for (const [id, style] of Object.entries(styles)) over styles[i..]:
\* style.styleType throws on a null entry.
RECURSIVE extractStyleTokens(_, _, _, _)
extractStyleTokens(styles, styleType, i, names) ==
    IF i > Len(styles) THEN Extraction(FALSE, names)
    ELSE IF styles[i].styleType = "null" THEN Extraction(TRUE, names)
    ELSE IF styles[i].styleType # styleType
         THEN extractStyleTokens(styles, styleType, i + 1, names)
    ELSE extractStyleTokens(styles, styleType, i + 1,
                            names \cup {styles[i].name})

extractTypographyTokens(styles) == extractStyleTokens(styles, "TEXT", 1, {})

extractShadowTokens(styles) == extractStyleTokens(styles, "EFFECT", 1, {})

\* Object.keys(variable.valuesByMode) throws when valuesByMode is absent.
RECURSIVE extractColorTokensFrom(_, _, _)
extractColorTokensFrom(variables, i, names) ==
    IF i > Len(variables) THEN Extraction(FALSE, names)
    ELSE IF variables[i].resolvedType = "null" THEN Extraction(TRUE, names)
    ELSE IF variables[i].resolvedType # "COLOR"
         THEN extractColorTokensFrom(variables, i + 1, names)
    ELSE IF variables[i].valuesByMode = "missing" THEN Extraction(TRUE, names)
    ELSE IF variables[i].valuesByMode = "color"
         THEN extractColorTokensFrom(variables, i + 1,
                                     names \cup {variables[i].name})
    ELSE extractColorTokensFrom(variables, i + 1, names)

extractColorTokens(variables) == extractColorTokensFrom(variables, 1, {})

\* FLOAT variables whose name suggests the family; the name test comes
\* before the read of valuesByMode.
RECURSIVE extractNumberTokens(_, _, _, _)
extractNumberTokens(variables, named, i, names) ==
    IF i > Len(variables) THEN Extraction(FALSE, names)
    ELSE IF variables[i].resolvedType = "null" THEN Extraction(TRUE, names)
    ELSE IF variables[i].resolvedType # "FLOAT"
         THEN extractNumberTokens(variables, named, i + 1, names)
    ELSE IF variables[i].named # named
         THEN extractNumberTokens(variables, named, i + 1, names)
    ELSE IF variables[i].valuesByMode = "missing" THEN Extraction(TRUE, names)
    ELSE IF variables[i].valuesByMode = "number"
         THEN extractNumberTokens(variables, named, i + 1,
                                  names \cup {variables[i].name})
    ELSE extractNumberTokens(variables, named, i + 1, names)

extractSpacingTokens(variables) == extractNumberTokens(variables, "spacing", 1, {})

extractRadiiTokens(variables) == extractNumberTokens(variables, "radius", 1, {})

Families == {"typography", "colors", "spacing", "radii", "shadows"}

\* One family extracted on its own.
ExtractFamily(family, data) ==
    CASE family = "typography" -> extractTypographyTokens(data.styles)
      [] family = "colors"     -> extractColorTokens(data.variables)
      [] family = "spacing"    -> extractSpacingTokens(data.variables)
      [] family = "radii"      -> extractRadiiTokens(data.variables)
      [] family = "shadows"    -> extractShadowTokens(data.styles)

\* const tokens = { typography: ..., colors: ..., spacing: ..., radii: ...,
\* shadows: ... }: five calls in one expression, no try around any of them.
extractTokens(data) ==
    IF \E family \in Families : ExtractFamily(family, data).threw
    THEN [threw |-> TRUE, tokens |-> NoTokens]
    ELSE [threw |-> FALSE,
          tokens |-> [family \in Families |-> ExtractFamily(family, data).names]]

\* ---- the responses of the file and variables endpoints, by name ----
GoodStyles == <<Style("TEXT", "t1"), Style("EFFECT", "e1")>>

GoodVariables ==
    <<Variable("COLOR", "c1", "other", "color"),
      Variable("FLOAT", "s1", "spacing", "number"),
      Variable("FLOAT", "r1", "radius", "number")>>

FigmaDataNames ==
    {"complete", "colorWithoutValues", "radiusWithoutValues", "nullStyle", "sparse"}

FigmaData(name) ==
    CASE name = "complete" ->
           [styles |-> GoodStyles, variables |-> GoodVariables]
      [] name = "colorWithoutValues" ->
           [styles |-> GoodStyles,
            variables |-> <<Variable("COLOR", "c1", "other", "missing"),
                            Variable("FLOAT", "s1", "spacing", "number"),
                            Variable("FLOAT", "r1", "radius", "number")>>]
      [] name = "radiusWithoutValues" ->
           [styles |-> GoodStyles,
            variables |-> <<Variable("COLOR", "c1", "other", "color"),
                            Variable("FLOAT", "s1", "spacing", "number"),
                            Variable("FLOAT", "r1", "radius", "missing")>>]
      [] name = "nullStyle" ->
           [styles |-> <<NullStyle, Style("EFFECT", "e1")>>,
            variables |-> GoodVariables]
      [] name = "sparse" ->
           [styles |-> <<Style("TEXT", "t1")>>,
            variables |-> <<Variable("FLOAT", "s1", "spacing", "number"),
                            Variable("STRING", "x1", "other", "number")>>]

\* Mutant: the search for the selected frame always finds something.
findNodeByIdAlways(frameId) == TRUE

\* findNodeById(file.document, figmaFrameId) returns a node.
findNodeById(frameId) == frameId \in FramesInFile

\* Steps 2-6: fetch file and variables (Promise.all: the composite fetch
\* rejects when either rejects), find the selected frame, extract.
BaselineFetch(r, fileOk, variablesOk, data) ==
    /\ runs[r].pc = "loaded"
    /\ IF ~fileOk
       THEN runs' = [runs EXCEPT ![r].pc = "failed",
                                 ![r].failure = "Failed to fetch Figma file"]
       ELSE IF ~variablesOk
       THEN runs' = [runs EXCEPT ![r].pc = "failed",
                                 ![r].failure = "Failed to fetch Figma variables"]
       ELSE IF ~findNodeById(runs[r].figmaFrameId)
       THEN runs' = [runs EXCEPT ![r].pc = "failed",
                                 ![r].failure = "Frame not found in Figma file"]
       ELSE IF extractTokens(FigmaData(data)).threw
       THEN runs' = [runs EXCEPT ![r].pc = "failed",
                                 ![r].figmaData = data,
                                 ![r].failure = "Token extraction threw"]
       ELSE runs' = [runs EXCEPT ![r].pc = "tx",
                                 ![r].figmaData = data,
                                 ![r].tokens = extractTokens(FigmaData(data)).tokens]
    /\ UNCHANGED <<projectFrame, snapshots, nextSnapshotId, raced, putResponse, notBaseline>>

\* Step 7, first statement of the transaction: the existence check reads
\* the committed rows.
BaselineTxFind(r) ==
    /\ runs[r].pc = "tx"
    /\ runs' = [runs EXCEPT ![r].pc = "txWrite",
                            ![r].existing = findFirst(snapshots, runs[r].projectId,
                                                      runs[r].figmaFrameId)]
    /\ raced' = IF \E o \in Runs \ {r} :
                       /\ runs[o].pc = "txWrite"
                       /\ runs[o].projectId = runs[r].projectId
                       /\ runs[o].figmaFrameId = runs[r].figmaFrameId
                THEN raced \cup {<<runs[r].projectId, runs[r].figmaFrameId>>}
                ELSE raced
    /\ UNCHANGED <<projectFrame, snapshots, nextSnapshotId, putResponse, notBaseline>>

\* Step 7, second statement and commit: update the row found, or create one.
BaselineTxWrite(r) ==
    /\ runs[r].pc = "txWrite"
    /\ IF runs[r].existing # 0
       THEN /\ snapshots' = updateSnapshot(snapshots, runs[r].existing,
                                           FigmaFileKey(runs[r].projectId),
                                           runs[r].figmaFrameId, r)
            /\ runs' = [runs EXCEPT ![r].pc = "done", ![r].result = runs[r].existing]
            /\ UNCHANGED nextSnapshotId
       ELSE /\ snapshots' = createSnapshot(snapshots, nextSnapshotId + 1,
                                           runs[r].projectId,
                                           FigmaFileKey(runs[r].projectId),
                                           runs[r].figmaFrameId, r)
            /\ runs' = [runs EXCEPT ![r].pc = "done", ![r].result = nextSnapshotId + 1]
            /\ nextSnapshotId' = nextSnapshotId + 1
    /\ UNCHANGED <<projectFrame, raced, putResponse, notBaseline>>

\* .then((snapshot) => console.log(...)): runs on fulfilment.
ThenLog(outcome) == IF outcome = "done" THEN "logged" ELSE outcome

\* Mutant: no rejection handler on the chain.
CatchLogMissing(outcome) == outcome

\* .catch((error) => console.error(...)): runs on rejection.
CatchLog(outcome) == IF outcome = "failed" THEN "caught" ELSE outcome

\* A rejection no handler took is an unhandled rejection.
EndOfChain(outcome) == IF outcome = "failed" THEN "unhandled" ELSE outcome

\* The promise of a background invocation settles and its chain runs.
BaselineSettled(r) ==
    /\ runs[r].settled = "pending"
    /\ runs[r].pc \in {"done", "failed"}
    /\ runs' = [runs EXCEPT ![r].settled =
                    EndOfChain(CatchLog(ThenLog(runs[r].pc)))]
    /\ UNCHANGED <<projectFrame, snapshots, nextSnapshotId, raced, putResponse,
                   notBaseline>>

BaselineInit ==
    /\ putResponse = NoPutResponse
    /\ projectFrame = [p \in Projects |-> None]
    /\ snapshots = {}
    /\ nextSnapshotId = 0
    /\ runs = [r \in Runs |-> IdleRun]
    /\ raced = {}

BaselineNext ==
    \/ \E q \in PutRequests : PutFigmaFrame(q[1], q[2], q[3], q[4], q[5])
    \/ \E r \in Runs : BaselineSettled(r)
    \/ \E r \in Runs, p \in ProjectIds : BaselineLoad(r, p)
    \/ \E r \in Runs, fileOk \in BOOLEAN, variablesOk \in BOOLEAN :
          BaselineFetch(r, fileOk, variablesOk, "complete")
    \/ \E r \in Runs : BaselineTxFind(r)
    \/ \E r \in Runs : BaselineTxWrite(r)

(***************************************************************************)
(* ------------------------ OAUTH START / CALLBACK ---------------------- *)
(***************************************************************************)

\* Bounds: Start requests, callback requests.
MaxStarts == 1
MaxCallbacks == 2

Callbacks == 1..MaxCallbacks

\* process.env configurations.
Env(clientId, clientSecret, encryptionKey) ==
    [clientId |-> clientId, clientSecret |-> clientSecret,
     encryptionKey |-> encryptionKey]

Envs ==
    {Env(TRUE, TRUE, "valid"), Env(TRUE, TRUE, "absent"),
     Env(TRUE, TRUE, "invalid"), Env(TRUE, FALSE, "valid"),
     Env(FALSE, FALSE, "absent")}

\* The configurations the OAuth flow is explored under: complete, with an
\* ENCRYPTION_KEY that is not 32 bytes of hex, and with the client secret and
\* the key missing.
OAuthEnvs ==
    {Env(TRUE, TRUE, "valid"), Env(TRUE, TRUE, "invalid"),
     Env(TRUE, FALSE, "absent")}

\* Cookie values: a nonce is a positive number, 0 is "no such cookie".
NoCookies == [csrf |-> 0, returnTo |-> None]

\* ---- the state parameter ----
\* kind "payload": base64url of a JSON object {csrf, projectId?};
\* kind "malformed": anything that does not decode, parse or pass the schema.
StatePayload(csrf, projectId) ==
    [kind |-> "payload", csrf |-> csrf, projectId |-> projectId]

MalformedState == [kind |-> "malformed", csrf |-> 0, projectId |-> None]

\* Buffer.from(state, 'base64url') / JSON.parse / statePayloadSchema.safeParse:
\* csrf must be a non-empty string.
StateDecodes(state) == state.kind = "payload" /\ state.csrf > 0

\* A nonce that Start never handed out.
ForeignNonce == MaxStarts + 1

\* ---- tokens and credentials ----
\* A stored token value: the provider's token, as an envelope or as-is.
NoToken == [plain |-> 0, encrypted |-> FALSE]

\* encrypt() inside `if (process.env.ENCRYPTION_KEY) try {...} catch {}`:
\* an envelope with a valid key, the raw value without a key or when
\* encrypt throws (a key of the wrong length).
EncryptForStore(e, token) ==
    [plain |-> token, encrypted |-> (e.encryptionKey = "valid")]

NoCredential ==
    [present |-> FALSE, id |-> 0, projectId |-> None, accessToken |-> NoToken,
     refreshToken |-> NoToken, accessTokenExpiresAt |-> 0, writer |-> 0]

CredentialsFor(store, projectId) == {c \in store : c.projectId = projectId}

\* prisma.figmaCredential.findUnique({where: {projectId}}): the row, or null.
findUniqueCredential(store, projectId) ==
    LET rows == CredentialsFor(store, projectId)
    IN  IF rows = {} THEN NoCredential
        ELSE CHOOSE c \in rows : \A o \in rows : c.id <= o.id

\* Mutant: the upsert inserts a row whether or not the project has one.
upsertCredentialAlwaysCreates(store, newId, projectId, access, refresh, expiresAt, writer) ==
    store \cup {[present |-> TRUE,
                 id |-> Cardinality(store) + 1,
                 projectId |-> projectId,
                 accessToken |-> access,
                 refreshToken |-> refresh,
                 accessTokenExpiresAt |-> expiresAt,
                 writer |-> writer]}

\* prisma.figmaCredential.upsert({where: {projectId}, create, update}) on a
\* table with a unique index on projectId: the project's row is rewritten in
\* place, or a row is inserted when the project has none.
upsertCredential(store, newId, projectId, access, refresh, expiresAt, writer) ==
    LET rows == CredentialsFor(store, projectId)
    IN  IF rows = {}
        THEN store \cup {[present |-> TRUE,
                          id |-> newId,
                          projectId |-> projectId,
                          accessToken |-> access,
                          refreshToken |-> refresh,
                          accessTokenExpiresAt |-> expiresAt,
                          writer |-> writer]}
        ELSE (store \ rows) \cup
             {[c EXCEPT !.accessToken = access,
                        !.refreshToken = refresh,
                        !.accessTokenExpiresAt = expiresAt,
                        !.writer = writer] : c \in rows}

\* ---- token endpoint responses ----
\* expires_in values (seconds) the provider may send.
ExpiresInChoices == {120, 121}

TokenResponse(kind, expiresIn) == [kind |-> kind, expires_in |-> expiresIn]

NoResponse == TokenResponse("none", 0)

\* 2xx with a body that passes figmaTokenResponseSchema, 2xx with a body that
\* does not (a field missing, expires_in not a positive integer), non-2xx.
ExchangeResponses ==
    {TokenResponse("ok", 180), TokenResponse("malformed", 0),
     TokenResponse("error", 0)}

\* ---- a callback request ----
IdleCallback ==
    [pc |-> "idle",
     paramsOk |-> FALSE, error |-> FALSE, state |-> MalformedState,
     sentCsrf |-> 0,                                 \* cookie sent with the request
     cookies |-> NoCookies,                          \* cookies() of this request
     csrfReads |-> 0, csrfDeletes |-> 0, returnToReads |-> 0, returnToDeletes |-> 0,
     deletedUnread |-> FALSE,
     storedCsrf |-> 0, returnTo |-> None,
     passedCsrf |-> FALSE,                           \* went past line 131
     user |-> None, response |-> NoResponse, exchanged |-> FALSE,
     status |-> None, location |-> None]

\* cookieStore.get(...) of both cookies (lines 72-73).
ReadCookies(c) ==
    [c EXCEPT !.storedCsrf = c.cookies.csrf,
              !.returnTo = IF c.cookies.returnTo = None THEN "/projects"
                           ELSE c.cookies.returnTo,
              !.csrfReads = @ + 1,
              !.returnToReads = @ + 1]

\* cookieStore.delete(...) of both cookies (lines 76-77, 304-305).
ClearOAuthCookies(c) ==
    [c EXCEPT !.cookies = NoCookies,
              !.csrfDeletes = @ + 1,
              !.returnToDeletes = @ + 1,
              !.deletedUnread = @ \/ c.csrfReads = 0 \/ c.returnToReads = 0]

\* A response leaves the handler.
Respond(c, status, location) ==
    [c EXCEPT !.pc = "responded", !.status = status, !.location = location]

\* The catch block (lines 296-310): it reads the return-URL cookie of this
\* request again, deletes both cookies again and redirects.
CatchBlock(c) ==
    LET again == [c EXCEPT !.returnToReads = @ + 1]
        dest  == IF c.cookies.returnTo = None THEN "/projects"
                 ELSE c.cookies.returnTo
    IN  Respond(ClearOAuthCookies(again), "redirect_unexpected", dest)

\* Mutant: any two values pass the CSRF comparison.
CsrfAlwaysMatches(stateCsrf, storedCsrf) == TRUE

\* statePayload.csrf !== storedCsrf (line 125), negated.
CsrfMatches(stateCsrf, storedCsrf) == stateCsrf = storedCsrf

\* Mutant: the membership test is skipped.
HasAccessAlways(projectId, user) == TRUE

\* project.org.memberships.length !== 0 (line 170), for an existing project.
HasAccess(projectId, user) == <<user, OrgOf(projectId)>> \in Memberships

\* ---- GET /api/figma/start, with the browser storing the two cookies ----
\* finalReturnTo (line 313): an empty returnTo is falsy.
FinalReturnTo(projectId, returnTo) ==
    IF returnTo # None /\ returnTo # "" THEN returnTo
    ELSE IF projectId # None THEN "/settings"
    ELSE "/projects"

\* The query parameters <<projectId, returnTo>> of Start, as
\* searchParams.get gives them: None is the null of an absent parameter.
\* Project ids are cuids; "px" is the id of no project.
StartQueries ==
    {<<"p1", "/back">>, <<"p1", "">>, <<"px", "/back">>,
     <<"p1", None>>, <<None, "/back">>, <<None, None>>}

\* startQuerySchema.safeParse (lines 243-246, 264-267): both fields are
\* z.string().optional(), which takes a string or undefined and rejects null.
StartQueryValid(projectId, returnTo) == projectId # None /\ returnTo # None

StartResponse(projectId, returnTo, status, cookiesSet) ==
    [projectId |-> projectId, returnTo |-> returnTo,
     status |-> status, cookiesSet |-> cookiesSet]

OAuthStart(projectId, returnTo) ==
    /\ Len(starts) < MaxStarts
    /\ IF ~StartQueryValid(projectId, returnTo)
       THEN /\ starts' = Append(starts, StartResponse(projectId, returnTo, 400, FALSE))
            /\ UNCHANGED <<issued, jar>>
       ELSE IF ~env.clientId
       THEN /\ starts' = Append(starts, StartResponse(projectId, returnTo, 500, FALSE))
            /\ UNCHANGED <<issued, jar>>
       ELSE LET csrfToken == Cardinality(issued) + 1
            IN  /\ issued' = issued \cup {StatePayload(csrfToken, projectId)}
                /\ jar' = [csrf |-> csrfToken,
                           returnTo |-> FinalReturnTo(projectId, returnTo)]
                /\ starts' = Append(starts,
                                    StartResponse(projectId, returnTo, 302, TRUE))
    /\ UNCHANGED <<env, now, callbacks, credentials, nextCredentialId,
                   tokenCalls, framesVars, baselineVars, refreshers, libraryVars>>

\* The two cookies reach their maxAge of 10 minutes.
CookiesExpire ==
    /\ jar # NoCookies
    /\ jar' = NoCookies
    /\ UNCHANGED <<env, now, issued, callbacks, credentials, nextCredentialId,
                   tokenCalls, notOAuth>>

\* ---- GET /api/figma/callback ----
\* The states a callback may carry: any state Start issued, a well-formed
\* payload with a nonce Start never issued, or a malformed one.
\* The state is unsigned base64url JSON that passes through the browser: it
\* comes back as issued, with a nonce of another origin, undecodable, or as
\* issued with the projectId key left out.
CallbackStates ==
    issued \cup {StatePayload(ForeignNonce, "p1"), MalformedState}
           \cup {StatePayload(st.csrf, None) : st \in issued}

\* The request arrives with the cookies the browser holds, and the handler
\* runs up to the token exchange (lines 56-175): read and clear the cookies,
\* user denial, query validation, state decoding, CSRF comparison, session
\* (user = None: no session), project lookup and membership.  getServerSession
\* or prisma.project.findUnique may throw.  Requests are numbered in the order
\* they arrive.
CallbackValidate(c, user, throws) ==
    IF c.error THEN Respond(c, "redirect_denied", c.returnTo)
    ELSE IF ~c.paramsOk THEN Respond(c, "400_params", None)
    ELSE IF ~StateDecodes(c.state) THEN Respond(c, "400_state", None)
    ELSE IF ~CsrfMatches(c.state.csrf, c.storedCsrf)
         THEN Respond(c, "400_csrf", None)
    ELSE IF throws THEN CatchBlock([c EXCEPT !.passedCsrf = TRUE])
    ELSE IF user = None THEN Respond([c EXCEPT !.passedCsrf = TRUE], "401", None)
    ELSE LET s == [c EXCEPT !.user = user, !.passedCsrf = TRUE]
         IN  IF s.state.projectId = None THEN [s EXCEPT !.pc = "exchange"]
             ELSE IF s.state.projectId \notin Projects
                  THEN Respond(s, "redirect_project_not_found", "/projects")
             ELSE IF ~HasAccess(s.state.projectId, s.user)
                  THEN Respond(s, "redirect_access_denied", "/projects")
             ELSE [s EXCEPT !.pc = "exchange"]

\* The query of a callback: user denial, a missing code or state, or a code
\* with one of the states.
CallbackQuery(paramsOk, error, state) ==
    [paramsOk |-> paramsOk, error |-> error, state |-> state]

CallbackQueries ==
    {CallbackQuery(TRUE, TRUE, MalformedState),
     CallbackQuery(FALSE, FALSE, MalformedState)}
    \cup {CallbackQuery(TRUE, FALSE, st) : st \in CallbackStates}

CallbackRequest(r, query, user, throws) ==
    /\ callbacks[r].pc = "idle"
    /\ \A o \in Callbacks : o < r => callbacks[o].pc # "idle"
    /\ LET arrived == [IdleCallback EXCEPT !.paramsOk = query.paramsOk,
                                           !.error = query.error,
                                           !.state = query.state,
                                           !.sentCsrf = jar.csrf,
                                           !.cookies = jar]
           c == ClearOAuthCookies(ReadCookies(arrived))
       IN  callbacks' = [callbacks EXCEPT ![r] = CallbackValidate(c, user, throws)]
    /\ UNCHANGED <<env, now, jar, issued, credentials, nextCredentialId,
                   tokenCalls, notOAuth>>

\* Mutant: the tokens are stored whether or not the state names a project.
HasProjectAlways(state) == TRUE

\* if (statePayload.projectId) (line 256).
HasProject(state) == state.projectId # None

\* Lines 181-232: configuration check, then the token endpoint answers the
\* POST (or fetch throws).
CallbackExchange(r, response, throws) ==
    /\ callbacks[r].pc = "exchange"
    /\ LET c == callbacks[r]
           called == [c EXCEPT !.exchanged = TRUE, !.response = response]
       IN  IF ~(env.clientId /\ env.clientSecret)
           THEN /\ callbacks' = [callbacks EXCEPT ![r] = Respond(c, "500_config", None)]
                /\ UNCHANGED tokenCalls
           ELSE /\ tokenCalls' = tokenCalls + 1
                /\ callbacks' = [callbacks EXCEPT ![r] =
                     IF throws
                     THEN CatchBlock([c EXCEPT !.exchanged = TRUE])
                     ELSE IF response.kind = "error"
                          THEN Respond(called, "redirect_exchange_failed", c.returnTo)
                     ELSE IF response.kind = "malformed"
                          THEN Respond(called, "redirect_invalid_response", c.returnTo)
                     ELSE IF HasProject(c.state)
                          THEN [called EXCEPT !.pc = "store"]
                     ELSE Respond(called, "redirect_success", c.returnTo)]
    /\ UNCHANGED <<env, now, jar, issued, credentials, nextCredentialId, notOAuth>>

\* Lines 239-283: expiry, encryption, prisma.figmaCredential.upsert resolves
\* (or throws), redirect to the project's settings page.
CallbackStore(r, throws) ==
    /\ callbacks[r].pc = "store"
    /\ LET c == callbacks[r]
           accessTokenExpiresAt == now + c.response.expires_in * 1000
           token == tokenCalls
       IN  IF throws
           THEN /\ callbacks' = [callbacks EXCEPT ![r] = CatchBlock(c)]
                /\ UNCHANGED <<credentials, nextCredentialId>>
           ELSE /\ credentials' =
                       upsertCredential(credentials, nextCredentialId + 1,
                                        c.state.projectId,
                                        EncryptForStore(env, token),
                                        EncryptForStore(env, token),
                                        accessTokenExpiresAt, r)
                /\ nextCredentialId' =
                       IF findUniqueCredential(credentials, c.state.projectId).present
                       THEN nextCredentialId ELSE nextCredentialId + 1
                /\ callbacks' = [callbacks EXCEPT ![r] =
                       Respond(c, "redirect_connected", "/settings")]
    /\ UNCHANGED <<env, now, jar, issued, tokenCalls, notOAuth>>

\* A request whose response was delivered: the handler's locals are gone;
\* the state it carried and how far it went is kept.
Closed(c) ==
    [IdleCallback EXCEPT !.pc = "closed",
                         !.state = c.state,
                         !.passedCsrf = c.passedCsrf,
                         !.exchanged = c.exchanged]

\* The browser receives the response: its Set-Cookie headers delete the
\* cookies the handler deleted.
ReceiveResponse(r) ==
    /\ callbacks[r].pc = "responded"
    /\ callbacks' = [callbacks EXCEPT ![r] = Closed(callbacks[r])]
    /\ jar' = [csrf |-> IF callbacks[r].csrfDeletes > 0 THEN 0 ELSE jar.csrf,
               returnTo |-> IF callbacks[r].returnToDeletes > 0 THEN None
                            ELSE jar.returnTo]
    /\ UNCHANGED <<env, now, issued, credentials, nextCredentialId,
                   tokenCalls, notOAuth>>

\* Nothing of the OAuth flow has happened.
OAuthIdle ==
    /\ env = Env(TRUE, TRUE, "valid")
    /\ now = 0
    /\ jar = NoCookies
    /\ issued = {}
    /\ callbacks = [r \in Callbacks |-> IdleCallback]
    /\ credentials = {}
    /\ nextCredentialId = 0
    /\ tokenCalls = 0
    /\ starts = <<>>

OAuthInit ==
    /\ env \in OAuthEnvs
    /\ now = 0
    /\ jar = NoCookies
    /\ issued = {}
    /\ callbacks = [r \in Callbacks |-> IdleCallback]
    /\ credentials = {}
    /\ nextCredentialId = 0
    /\ tokenCalls = 0
    /\ starts = <<>>

OAuthNext ==
    \/ \E q \in StartQueries : OAuthStart(q[1], q[2])
    \/ CookiesExpire
    \/ \E r \in Callbacks, q \in CallbackQueries, u \in Users \cup {None},
          th \in BOOLEAN : CallbackRequest(r, q, u, th)
    \/ \E r \in Callbacks, resp \in ExchangeResponses, th \in BOOLEAN :
           CallbackExchange(r, resp, th)
    \/ \E r \in Callbacks, th \in BOOLEAN : CallbackStore(r, th)
    \/ \E r \in Callbacks : ReceiveResponse(r)

(***************************************************************************)
(* ---------------------------- TOKEN REFRESH --------------------------- *)
(***************************************************************************)

\* Bounds: getFigmaAccessToken invocations, minutes the clock advances.
MaxRefreshes == 2
MaxTicks == 2

Refreshers == 1..MaxRefreshes

\* const expiryBuffer = 2 * 60 * 1000 (line 208).
ExpiryBufferMs == 2 * 60 * 1000

TickMs == 60 * 1000

\* The credential the refresh runs start from: stored by a callback at time 0
\* with expires_in = 180.
StoredExpiresAt == 180 * 1000

StoredCredential ==
    [present |-> TRUE, id |-> 1, projectId |-> "p1",
     accessToken |-> [plain |-> 1, encrypted |-> TRUE],
     refreshToken |-> [plain |-> 1, encrypted |-> TRUE],
     accessTokenExpiresAt |-> StoredExpiresAt, writer |-> 1]

\* Clock readings the exploration starts from: the stored expiry is
\* 2 min + 1 ms, exactly 2 min, or 2 min - 1 ms away.
StartTimes == {TickMs - 1, TickMs, TickMs + 1}

LastTime == TickMs + 1 + MaxTicks * TickMs

\* process.env configurations the refresh is explored under.
RefreshEnvs ==
    {Env(TRUE, TRUE, "valid"), Env(TRUE, TRUE, "absent"), Env(TRUE, FALSE, "valid")}

\* Responses of the token endpoint to grant_type=refresh_token: 2xx with
\* some expires_in, or non-2xx.
RefreshResponses ==
    {TokenResponse("ok", s) : s \in ExpiresInChoices} \cup {TokenResponse("error", 0)}

IdleRefresher ==
    [pc |-> "idle", projectId |-> None,
     credential |-> NoCredential,        \* the record passed in
     checkedAt |-> 0,                    \* Date.now() of line 209
     called |-> FALSE, wrote |-> FALSE,
     issuedToken |-> 0,                  \* the tokens the provider issued for it
     computedAt |-> 0,                   \* Date.now() of line 276
     newExpiresAt |-> 0,
     status |-> 0,                       \* status of the FigmaApiError thrown
     upstream |-> 0,                     \* status the token endpoint answered
     returned |-> NoCredential,
     accessToken |-> NoToken,            \* what getFigmaAccessToken returned
     apiSent |-> FALSE]                  \* a Figma API request left with it

\* Mutant: an expiry exactly 2 minutes away counts as expiring.
IsExpiringSoonInclusive(expiresAt, dateNow) ==
    expiresAt - dateNow <= ExpiryBufferMs

\* isExpiringSoon (line 209).
IsExpiringSoon(expiresAt, dateNow) ==
    expiresAt - dateNow < ExpiryBufferMs

\* HTTP statuses of the token endpoint.
RefreshStatuses == {200, 503}

ResponseOk(httpStatus) == httpStatus >= 200 /\ httpStatus <= 299

\* Mutant: the error carries a fixed status.
FigmaApiErrorStatusGeneric(httpStatus) == 500

\* new FigmaApiError(..., response.status, ...) (lines 265-270).
FigmaApiErrorStatus(httpStatus) == httpStatus

\* decrypt() inside try/catch (lines 336-344): the plain token when the value
\* is an envelope and the key is there; otherwise the stored value as it is.
DecryptBestEffort(e, token) ==
    [plain |-> token.plain,
     encrypted |-> token.encrypted /\ e.encryptionKey # "valid"]

\* getFigmaAccessToken once the refresh has returned (lines 333-346), and
\* the caller's request to api.figma.com with the token (fetchFigmaFile,
\* lines 369-376).  A refresh that threw never gets here.
ReturnToken(e, f, fresh) ==
    [f EXCEPT !.pc = "done",
              !.returned = fresh,
              !.accessToken = DecryptBestEffort(e, fresh.accessToken),
              !.apiSent = TRUE]

\* prisma.figmaCredential.update({where: {id}, data}) (lines 294-302).
updateCredential(store, id, access, refresh, expiresAt) ==
    {IF c.id = id
     THEN [c EXCEPT !.accessToken = access,
                    !.refreshToken = refresh,
                    !.accessTokenExpiresAt = expiresAt]
     ELSE c : c \in store}

\* getFigmaAccessToken up to the refresh (lines 324-330): load the
\* credential; none stored is "not connected".  Invocations are numbered in
\* the order they start.
RefreshLoad(q, p) ==
    /\ refreshers[q].pc = "idle"
    /\ \A o \in Refreshers : o < q => refreshers[o].pc # "idle"
    /\ refreshers' = [refreshers EXCEPT ![q] =
           IF findUniqueCredential(credentials, p).present
           THEN [@ EXCEPT !.pc = "loaded", !.projectId = p,
                          !.credential = findUniqueCredential(credentials, p)]
           ELSE [@ EXCEPT !.pc = "notconnected", !.projectId = p]]
    /\ UNCHANGED <<env, now, jar, issued, callbacks, credentials,
                   nextCredentialId, tokenCalls, starts, framesVars, baselineVars,
                   libraryVars>>

\* refreshAccessTokenIfNeeded, lines 207-257: the expiry test, the
\* configuration test, and the POST to the token endpoint.  The provider
\* numbers the token pairs it issues in the order the requests reach it; the
\* stored pair is number 1.
RefreshCheck(q) ==
    /\ refreshers[q].pc = "loaded"
    /\ LET f == [refreshers[q] EXCEPT !.checkedAt = now]
       IN  IF ~IsExpiringSoon(f.credential.accessTokenExpiresAt, now)
           THEN /\ refreshers' = [refreshers EXCEPT ![q] =
                       ReturnToken(env, f, f.credential)]
                /\ UNCHANGED tokenCalls
           ELSE IF ~(env.clientId /\ env.clientSecret)
           THEN /\ refreshers' = [refreshers EXCEPT ![q] =
                       [f EXCEPT !.pc = "failed", !.status = 500]]
                /\ UNCHANGED tokenCalls
           ELSE /\ refreshers' = [refreshers EXCEPT ![q] =
                       [f EXCEPT !.pc = "calling", !.called = TRUE,
                                 !.issuedToken = tokenCalls + 2]]
                /\ tokenCalls' = tokenCalls + 1
    /\ UNCHANGED <<env, now, jar, issued, callbacks, credentials,
                   nextCredentialId, starts, framesVars, baselineVars,
                   libraryVars>>

\* Lines 259-276: the token endpoint answers; non-2xx throws FigmaApiError
\* with the upstream status, otherwise the new expiry is computed from the
\* body as it came.
RefreshRespond(q, httpStatus, response) ==
    /\ refreshers[q].pc = "calling"
    /\ ResponseOk(httpStatus) <=> response.kind = "ok"
    /\ refreshers' = [refreshers EXCEPT ![q] =
           IF ~ResponseOk(httpStatus)
           THEN [@ EXCEPT !.pc = "failed",
                          !.upstream = httpStatus,
                          !.status = FigmaApiErrorStatus(httpStatus)]
           ELSE [@ EXCEPT !.pc = "updating",
                          !.upstream = httpStatus,
                          !.computedAt = now,
                          !.newExpiresAt = now + response.expires_in * 1000]]
    /\ UNCHANGED <<env, now, jar, issued, callbacks, credentials,
                   nextCredentialId, tokenCalls, starts, framesVars, baselineVars,
                   libraryVars>>

\* Lines 278-309: encrypt, update the row by id, return the updated row.
RefreshUpdate(q) ==
    /\ refreshers[q].pc = "updating"
    /\ LET f == refreshers[q]
           token == f.issuedToken
           store == updateCredential(credentials, f.credential.id,
                                     EncryptForStore(env, token),
                                     EncryptForStore(env, token),
                                     f.newExpiresAt)
       IN  /\ credentials' = store
           /\ refreshers' = [refreshers EXCEPT ![q] =
                  ReturnToken(env, [f EXCEPT !.wrote = TRUE],
                              CHOOSE c \in store : c.id = f.credential.id)]
    /\ UNCHANGED <<env, now, jar, issued, callbacks, nextCredentialId,
                   tokenCalls, starts, framesVars, baselineVars,
                   libraryVars>>

\* A minute passes.
Tick ==
    /\ now + TickMs <= LastTime
    /\ now' = now + TickMs
    /\ UNCHANGED <<env, jar, issued, callbacks, credentials, nextCredentialId,
                   tokenCalls, starts, refreshers, framesVars, baselineVars,
                   libraryVars>>

\* No refresh has started.
RefreshIdle == refreshers = [q \in Refreshers |-> IdleRefresher]

RefreshInit ==
    /\ env \in RefreshEnvs
    /\ now \in StartTimes
    /\ jar = NoCookies
    /\ issued = {}
    /\ callbacks = [r \in Callbacks |-> IdleCallback]
    /\ credentials = {StoredCredential}
    /\ nextCredentialId = 1
    /\ tokenCalls = 0
    /\ starts = <<>>
    /\ RefreshIdle

RefreshNext ==
    \/ \E q \in Refreshers, p \in Projects : RefreshLoad(q, p)
    \/ \E q \in Refreshers : RefreshCheck(q)
    \/ \E q \in Refreshers, st \in RefreshStatuses, resp \in RefreshResponses :
           RefreshRespond(q, st, resp)
    \/ \E q \in Refreshers : RefreshUpdate(q)
    \/ Tick

(***************************************************************************)
(* ------------------------ GET /api/figma/frames ----------------------- *)
(***************************************************************************)

\* Error messages, word by word.
CredentialsNotFoundMessage ==
    <<"Figma", "credentials", "not", "found", "for", "project">>

NoFigmaCredentialsNeedle == <<"No", "Figma", "credentials">>

\* String.prototype.includes.
Includes(haystack, needle) ==
    \E i \in 1..(Len(haystack) - Len(needle) + 1) :
        SubSeq(haystack, i, i + Len(needle) - 1) = needle

\* notConnected: the request met a project without a stored credential.
FramesResponse(status, needsOAuth, total, truncated, notConnected) ==
    [status |-> status, needsOAuth |-> needsOAuth, total |-> total,
     truncated |-> truncated, notConnected |-> notConnected]

NoFramesResponse == FramesResponse(0, FALSE, 0, FALSE, FALSE)

\* Statuses of api.figma.com on GET /v1/files/{key}.
FigmaFileStatuses == {200, 403, 404, 503}

\* The catch around fetchFigmaFile for an error that is not a FigmaApiError
\* (lines 286-299), followed by the outer catch (lines 330-343).
MapFetchError(message, notConnected) ==
    IF Includes(message, NoFigmaCredentialsNeedle)
    THEN FramesResponse(400, TRUE, 0, FALSE, notConnected)
    ELSE FramesResponse(500, FALSE, 0, FALSE, notConnected)

\* The request as it arrives: the session of the caller (None: no session)
\* and the projectId of the query string.
FramesQuery(user, projectId, figmaRequested) ==
    [user |-> user, projectId |-> projectId, figmaRequested |-> figmaRequested]

NoFramesQuery == FramesQuery(None, None, FALSE)

Callers == Users \cup {None}

\* Steps 1-3 up to the pre-check (lines 184-252).  The handler reads the
\* query string and the database; it does not read the session.
FramesRequest(user, p) ==
    /\ framesPc = "idle"
    /\ framesRequest' = FramesQuery(user, p, FALSE)
    /\ IF p \notin Projects
       THEN /\ framesPc' = "responded"
            /\ framesResponse' = FramesResponse(404, FALSE, 0, FALSE, FALSE)
       ELSE IF FigmaFileKey(p) = None
       THEN /\ framesPc' = "responded"
            /\ framesResponse' = FramesResponse(400, FALSE, 0, FALSE, FALSE)
       ELSE IF ~findUniqueCredential(credentials, p).present
       THEN /\ framesPc' = "responded"
            /\ framesResponse' = FramesResponse(400, TRUE, 0, FALSE, TRUE)
       ELSE /\ framesPc' = "checked"
            /\ UNCHANGED framesResponse
    /\ UNCHANGED <<document, extracted, notFrames>>

\* fetchFigmaFile (line 257): getFigmaAccessToken looks the credential up
\* again and throws when there is none; otherwise api.figma.com answers.
FetchDocument(httpStatus) ==
    /\ framesPc = "checked"
    /\ IF ~findUniqueCredential(credentials, "p1").present
       THEN /\ framesPc' = "responded"
            /\ framesResponse' = MapFetchError(CredentialsNotFoundMessage, TRUE)
            /\ UNCHANGED document
       ELSE IF ~ResponseOk(httpStatus)
       THEN /\ framesPc' = "responded"
            /\ framesResponse' = FramesResponse(httpStatus, FALSE, 0, FALSE, FALSE)
            /\ UNCHANGED document
       ELSE /\ framesPc' = "fetched"
            /\ document' \in Documents
            /\ UNCHANGED framesResponse
    /\ framesRequest' =
           [framesRequest EXCEPT
               !.figmaRequested = findUniqueCredential(credentials, "p1").present]
    /\ UNCHANGED <<extracted, notFrames>>

\* Step 4: extract the frames of the fetched document (line 306).
ExtractFrames ==
    /\ framesPc = "fetched"
    /\ framesPc' = "extracted"
    /\ extracted' = extractFramesFromDocument(document)
    /\ UNCHANGED <<document, framesResponse, framesRequest, notFrames>>

\* Mutant: truncated only when more than the ceiling was collected.
MetaTruncatedBeyondCeiling(frames) == Len(frames) > MAX_FRAMES

\* meta.truncated: frames.length >= MAX_FRAMES (line 326).
MetaTruncated(frames) == Len(frames) >= MAX_FRAMES

\* Step 5: the response (lines 320-328).
FramesRespond ==
    /\ framesPc = "extracted"
    /\ framesPc' = "responded"
    /\ framesResponse' =
           FramesResponse(200, FALSE, Len(extracted.frames),
                          MetaTruncated(extracted.frames), FALSE)
    /\ UNCHANGED <<document, extracted, framesRequest, notFrames>>

\* The project row is deleted while the request is under way: ON DELETE
\* CASCADE removes its credential.
ProjectDeleted(p) ==
    /\ framesPc # "idle"
    /\ CredentialsFor(credentials, p) # {}
    /\ credentials' = credentials \ CredentialsFor(credentials, p)
    /\ UNCHANGED <<framesVars, baselineVars, libraryVars, env, now, jar, issued, callbacks,
                   nextCredentialId, tokenCalls, starts, refreshers>>

FramesInit ==
    /\ framesPc = "idle"
    /\ document = NoDocument
    /\ extracted = Acc(<<>>, -1)
    /\ framesResponse = NoFramesResponse
    /\ framesRequest = NoFramesQuery

\* The store a frames request meets: p1 connected, or nothing stored.
FramesStoreInit ==
    /\ env = Env(TRUE, TRUE, "valid")
    /\ now = 0
    /\ jar = NoCookies
    /\ issued = {}
    /\ callbacks = [r \in Callbacks |-> IdleCallback]
    /\ credentials \in {{}, {StoredCredential}}
    /\ nextCredentialId = Cardinality(credentials)
    /\ tokenCalls = 0
    /\ starts = <<>>

FramesNext ==
    \/ \E user \in Callers, p \in ProjectIds : FramesRequest(user, p)
    \/ \E st \in FigmaFileStatuses : FetchDocument(st)
    \/ ExtractFrames
    \/ FramesRespond
    \/ \E p \in Projects : ProjectDeleted(p)

(***************************************************************************)
(* ------------------------------ LIB/CRYPTO ---------------------------- *)
(***************************************************************************)

IV_LENGTH == 16
AUTH_TAG_LENGTH == 16

\* ---- hex text ----
\* Text is a sequence of one-character strings.
HexDigits == <<"0", "1", "2", "3", "4", "5", "6", "7",
               "8", "9", "a", "b", "c", "d", "e", "f">>

UpperHexDigits == <<"0", "1", "2", "3", "4", "5", "6", "7",
                    "8", "9", "A", "B", "C", "D", "E", "F">>

\* The value of a hex digit of either case, -1 for any other character.
NibbleOf(c) ==
    IF \E v \in 1..16 : HexDigits[v] = c
    THEN (CHOOSE v \in 1..16 : HexDigits[v] = c) - 1
    ELSE IF \E v \in 1..16 : UpperHexDigits[v] = c
    THEN (CHOOSE v \in 1..16 : UpperHexDigits[v] = c) - 1
    ELSE -1

\* buffer.toString('hex'): two lower-case digits per byte.
ToHex(bytes) ==
    [k \in 1..(2 * Len(bytes)) |->
        IF k % 2 = 1 THEN HexDigits[(bytes[(k + 1) \div 2] \div 16) + 1]
        ELSE HexDigits[(bytes[k \div 2] % 16) + 1]]

\* Buffer.from(text, 'hex'): pairs of digits of either case are decoded up
\* to the first pair that is not two hex digits; a trailing single
\* character is dropped.
FromHex(text) ==
    LET n      == Len(text) \div 2
        good(k) == NibbleOf(text[2 * k - 1]) >= 0 /\ NibbleOf(text[2 * k]) >= 0
        count  == Cardinality({k \in 1..n : \A j \in 1..k : good(j)})
    IN  [k \in 1..count |->
            16 * NibbleOf(text[2 * k - 1]) + NibbleOf(text[2 * k])]

\* text.split(':')
RECURSIVE Split(_, _)
Split(text, field) ==
    IF text = <<>> THEN <<field>>
    ELSE IF Head(text) = ":" THEN <<field>> \o Split(Tail(text), <<>>)
    ELSE Split(Tail(text), Append(field, Head(text)))

\* ---- UTF-8 ----
\* A string is a sequence of UTF-16 code units: the letters a and b, the
\* high surrogate HI and the low surrogate LO of one emoji, and U+FFFD.
Replacement == <<239, 191, 189>>

\* The 'utf8' input encoding: a surrogate without its partner is written as
\* U+FFFD.
RECURSIVE Utf8Encode(_)
Utf8Encode(units) ==
    IF units = <<>> THEN <<>>
    ELSE IF Head(units) = "a" THEN <<97>> \o Utf8Encode(Tail(units))
    ELSE IF Head(units) = "b" THEN <<98>> \o Utf8Encode(Tail(units))
    ELSE IF Head(units) = "HI" /\ Len(units) >= 2 /\ units[2] = "LO"
         THEN <<240, 159, 152, 128>> \o Utf8Encode(Tail(Tail(units)))
    ELSE Replacement \o Utf8Encode(Tail(units))

\* The 'utf8' output encoding; bytes that are no UTF-8 come out as U+FFFD.
RECURSIVE Utf8Decode(_)
Utf8Decode(bytes) ==
    IF bytes = <<>> THEN <<>>
    ELSE IF Head(bytes) = 97 THEN <<"a">> \o Utf8Decode(Tail(bytes))
    ELSE IF Head(bytes) = 98 THEN <<"b">> \o Utf8Decode(Tail(bytes))
    ELSE IF Len(bytes) >= 4 /\ SubSeq(bytes, 1, 4) = <<240, 159, 152, 128>>
         THEN <<"HI", "LO">> \o Utf8Decode(SubSeq(bytes, 5, Len(bytes)))
    ELSE IF Len(bytes) >= 3 /\ SubSeq(bytes, 1, 3) = Replacement
         THEN <<"FFFD">> \o Utf8Decode(SubSeq(bytes, 4, Len(bytes)))
    ELSE <<"FFFD">> \o Utf8Decode(Tail(bytes))

\* ---- AES-256-GCM, for one fixed valid key ----
\* The cipher is a stand-in with the properties of GCM that decrypt relies
\* on: a keystream that depends on key, IV and position, and a tag over key,
\* IV and ciphertext that changes when one byte of either changes.
KeyByte == 7

Keystream(iv, i) == (iv[((i - 1) % IV_LENGTH) + 1] + KeyByte + i) % 256

CipherBytes(iv, bytes) ==
    [i \in 1..Len(bytes) |-> (bytes[i] + Keystream(iv, i)) % 256]

PlainBytes(iv, bytes) ==
    [i \in 1..Len(bytes) |-> (bytes[i] + 256 - Keystream(iv, i)) % 256]

RECURSIVE WeightedSum(_, _)
WeightedSum(bytes, i) ==
    IF i > Len(bytes) THEN 0 ELSE i * bytes[i] + WeightedSum(bytes, i + 1)

RECURSIVE Sum(_, _)
Sum(bytes, i) == IF i > Len(bytes) THEN 0 ELSE bytes[i] + Sum(bytes, i + 1)

AuthTag(iv, cipherBytes) ==
    [j \in 1..AUTH_TAG_LENGTH |->
        (WeightedSum(cipherBytes, 1) + Len(cipherBytes) + Sum(iv, 1) + iv[j]
           + KeyByte * j) % 256]

\* crypto.randomBytes(IV_LENGTH): two of the values it can return.
IVs == {[j \in 1..IV_LENGTH |-> 0], [j \in 1..IV_LENGTH |-> (171 + 17 * j) % 256]}

\* encrypt(plaintext) with the IV randomBytes returned.
encrypt(plaintext, iv) ==
    LET cipherBytes == CipherBytes(iv, Utf8Encode(plaintext))
    IN  ToHex(iv) \o <<":">> \o ToHex(AuthTag(iv, cipherBytes))
          \o <<":">> \o ToHex(cipherBytes)

DecryptResult(ok, value) == [ok |-> ok, value |-> value]

DecryptionFailed == DecryptResult(FALSE, <<>>)

\* decipher.final(): the tag set by setAuthTag is the tag of the data.
TagVerifies(iv, authTag, cipherBytes) == authTag = AuthTag(iv, cipherBytes)

\* decrypt(encryptedData); every throw is rethrown as 'Decryption failed'.
\* decipher.update(ciphertext, 'hex', 'utf8') rejects a hex string of odd
\* length.
decrypt(encryptedData) ==
    LET parts == Split(encryptedData, <<>>)
    IN  IF Len(parts) # 3 THEN DecryptionFailed
        ELSE
          LET iv          == FromHex(parts[1])
              authTag     == FromHex(parts[2])
              cipherBytes == FromHex(parts[3])
          IN  IF Len(iv) # IV_LENGTH THEN DecryptionFailed
              ELSE IF Len(authTag) # AUTH_TAG_LENGTH THEN DecryptionFailed
              ELSE IF Len(parts[3]) % 2 # 0 THEN DecryptionFailed
              ELSE IF ~TagVerifies(iv, authTag, cipherBytes) THEN DecryptionFailed
              ELSE DecryptResult(TRUE, Utf8Decode(PlainBytes(iv, cipherBytes)))

\* ---- the strings encrypted and what is done to an envelope in storage ----
Plaintexts ==
    { <<>>, <<"a">>, <<"a", "b">>, <<"HI", "LO">>, <<"b", "HI", "LO", "a">>,
      <<"FFFD">>, <<"HI">>, <<"LO", "a">> }

Join(parts) == parts[1] \o <<":">> \o parts[2] \o <<":">> \o parts[3]

\* Another hex digit in place of c.
OtherDigit(c) == IF c = "0" THEN "1" ELSE "0"

Upper(text) ==
    [k \in 1..Len(text) |->
        IF NibbleOf(text[k]) >= 0 THEN UpperHexDigits[NibbleOf(text[k]) + 1]
        ELSE text[k]]

DropLast(text, n) == SubSeq(text, 1, Len(text) - n)

Tamperings ==
    {"none", "cipherDigit", "tagDigit", "cipherUpper", "tagUpper",
     "cipherGarbage", "tagGarbage", "ivGarbage", "twoFields", "fourFields",
     "ivShort", "ivLong", "tagShort", "tagLong"}

Tampered(envelope, kind) ==
    LET parts == Split(envelope, <<>>)
        iv    == parts[1]
        tag   == parts[2]
        ct    == parts[3]
    IN  CASE kind = "none"          -> envelope
          [] kind = "cipherDigit"   ->
                IF ct = <<>> THEN envelope
                ELSE Join(<<iv, tag, [ct EXCEPT ![Len(ct)] = OtherDigit(@)]>>)
          [] kind = "tagDigit"      ->
                Join(<<iv, [tag EXCEPT ![1] = OtherDigit(@)], ct>>)
          [] kind = "cipherUpper"   -> Join(<<iv, tag, Upper(ct)>>)
          [] kind = "tagUpper"      -> Join(<<iv, Upper(tag), ct>>)
          [] kind = "cipherGarbage" -> Join(<<iv, tag, ct \o <<"z", "z">>>>)
          [] kind = "tagGarbage"    -> Join(<<iv, tag \o <<"z", "z">>, ct>>)
          [] kind = "ivGarbage"     -> Join(<<iv \o <<"z", "z">>, tag, ct>>)
          [] kind = "twoFields"     -> iv \o <<":">> \o tag
          [] kind = "fourFields"    -> envelope \o <<":", "0", "0">>
          [] kind = "ivShort"       -> Join(<<DropLast(iv, 2), tag, ct>>)
          [] kind = "ivLong"        -> Join(<<iv \o <<"0", "0">>, tag, ct>>)
          [] kind = "tagShort"      -> Join(<<iv, DropLast(tag, 2), ct>>)
          [] kind = "tagLong"       -> Join(<<iv, tag \o <<"0", "0">>, ct>>)

CryptoState(pc, plaintext, envelope, tampering, stored, result) ==
    [pc |-> pc, plaintext |-> plaintext, envelope |-> envelope,
     tampering |-> tampering, stored |-> stored, result |-> result]

CryptoIdle == crypto = CryptoState("off", <<>>, <<>>, "none", <<>>, DecryptionFailed)

CryptoInit ==
    \E x \in Plaintexts :
        crypto = CryptoState("start", x, <<>>, "none", <<>>, DecryptionFailed)

\* encrypt(x)
Encrypt(iv) ==
    /\ crypto.pc = "start"
    /\ crypto' = [crypto EXCEPT !.pc = "encrypted",
                                !.envelope = encrypt(crypto.plaintext, iv),
                                !.stored = encrypt(crypto.plaintext, iv)]
    /\ UNCHANGED <<notLibrary, components>>

\* The envelope is altered where it is kept.
Tamper(kind) ==
    /\ crypto.pc = "encrypted"
    /\ crypto' = [crypto EXCEPT !.pc = "stored",
                                !.tampering = kind,
                                !.stored = Tampered(crypto.envelope, kind)]
    /\ UNCHANGED <<notLibrary, components>>

\* decrypt(stored)
Decrypt ==
    /\ crypto.pc = "stored"
    /\ crypto' = [crypto EXCEPT !.pc = "decrypted",
                                !.result = decrypt(crypto.stored)]
    /\ UNCHANGED <<notLibrary, components>>

CryptoNext ==
    \/ \E iv \in IVs : Encrypt(iv)
    \/ \E kind \in Tamperings : Tamper(kind)
    \/ Decrypt

(***************************************************************************)
(* ------------------- LIB/BASELINE: COMPONENT EXTRACTION --------------- *)
(***************************************************************************)

\* const MAX_DEPTH = 10 of extractComponentsFromNode.
MAX_DEPTH == 10

\* Mutant: groups are not component-like.
IsComponentTypeWithoutGroup(node) == node.type \in {"COMPONENT", "INSTANCE", "FRAME"}

IsComponentType(node) == node.type \in {"COMPONENT", "INSTANCE", "FRAME", "GROUP"}

ComponentResult(threw, found) == [threw |-> threw, found |-> found]

RECURSIVE extractComponentsFromNode(_, _)
RECURSIVE extractComponentsFromChildren(_, _, _, _)

\* for (const child of node.children) { try { components.push(...extract(child,
\* depth + 1)) } catch { console.warn(..., child.id, ...) } } over
\* children[i..]: what a child's call had collected is lost when it throws,
\* and the catch block throws again on a null child.
extractComponentsFromChildren(children, i, depth, found) ==
    IF i > Len(children) THEN ComponentResult(FALSE, found)
    ELSE LET r == extractComponentsFromNode(children[i], depth + 1)
         IN  IF r.threw
             THEN IF IsNull(children[i]) THEN ComponentResult(TRUE, <<>>)
                  ELSE extractComponentsFromChildren(children, i + 1, depth, found)
             ELSE extractComponentsFromChildren(children, i + 1, depth,
                                                found \o r.found)

\* The ids of the summaries returned, in the order pushed.
extractComponentsFromNode(node, depth) ==
    IF depth > MAX_DEPTH THEN ComponentResult(FALSE, <<>>)
    ELSE IF IsNull(node) THEN ComponentResult(TRUE, <<>>)
    ELSE LET own == IF /\ IsComponentType(node)
                       /\ node.box.present
                       /\ node.box.width > 0
                       /\ node.box.height > 0
                    THEN <<node.id>> ELSE <<>>
         IN  IF node.hasChildren
             THEN extractComponentsFromChildren(node.children, 1, depth, own)
             ELSE ComponentResult(FALSE, own)

\* ---- the selected frames the extraction is run on ----
ComponentShapes ==
    Shapes \cup { [type |-> "INSTANCE", box |-> Box(400, 240)],
                  [type |-> "GROUP",    box |-> Box(400, 240)],
                  [type |-> "TEXT",     box |-> Box(400, 240)],
                  [type |-> "INSTANCE", box |-> Box(400, 0)] }

ComponentLeaves == {Tree(sh, <<>>) : sh \in ComponentShapes} \cup {NullNode}

SelectedFrame(kids) == Label(Tree(ValidFrameShape, kids), <<>>)

SelectedFrames ==
    {SelectedFrame(<<a, b>>) : a \in ComponentLeaves, b \in ComponentLeaves}
    \cup {SelectedFrame(<<Tree([type |-> "GROUP", box |-> NoBox], <<a>>),
                          Tree(ValidFrameShape, <<>>)>>) : a \in ComponentLeaves}
    \cup {SelectedFrame(ChainTree(d)) : d \in 0..MaxChain}

ComponentsState(pc, frame, result) == [pc |-> pc, frame |-> frame, result |-> result]

ComponentsIdle ==
    components = ComponentsState("off", NoDocument, ComponentResult(FALSE, <<>>))

LibraryIdle == CryptoIdle /\ ComponentsIdle

\* Step 3: the selected frame is found in the document.
SelectFrame(frame) ==
    /\ components.pc = "off"
    /\ components' = [components EXCEPT !.pc = "selected", !.frame = frame]
    /\ UNCHANGED <<notLibrary, crypto>>

\* Step 5: const components = extractComponentsFromNode(selectedFrame).
ExtractComponents ==
    /\ components.pc = "selected"
    /\ components' = [components EXCEPT
                         !.pc = "extracted",
                         !.result = extractComponentsFromNode(components.frame, 0)]
    /\ UNCHANGED <<notLibrary, crypto>>

ComponentsNext ==
    \/ \E frame \in SelectedFrames : SelectFrame(frame)
    \/ ExtractComponents

(***************************************************************************)
(* --------------------------- SPECIFICATIONS --------------------------- *)
(***************************************************************************)

InitFrames == FramesInit /\ BaselineInit /\ FramesStoreInit /\ RefreshIdle /\ LibraryIdle

SpecFrames == InitFrames /\ [][FramesNext]_vars

InitBaseline == FramesInit /\ BaselineInit /\ OAuthIdle /\ RefreshIdle /\ LibraryIdle

SpecBaseline == InitBaseline /\ [][BaselineNext]_vars

InitOAuth == FramesInit /\ BaselineInit /\ OAuthInit /\ RefreshIdle /\ LibraryIdle

SpecOAuth == InitOAuth /\ [][OAuthNext]_vars

InitRefresh == FramesInit /\ BaselineInit /\ RefreshInit /\ LibraryIdle

SpecRefresh == InitRefresh /\ [][RefreshNext]_vars

\* Callbacks and refreshes on one store: the callbacks carry an issued state
\* and a member's session; the code exchange yields a token that lasts one
\* minute, so that a refresh is due as soon as it is stored.
CredentialsNext ==
    \/ OAuthStart("p1", "/back")
    \/ \E r \in Callbacks, st \in issued :
           CallbackRequest(r, CallbackQuery(TRUE, FALSE, st), "u1", FALSE)
    \/ \E r \in Callbacks : CallbackExchange(r, TokenResponse("ok", 60), FALSE)
    \/ \E r \in Callbacks, th \in BOOLEAN : CallbackStore(r, th)
    \/ \E r \in Callbacks : ReceiveResponse(r)
    \/ \E q \in Refreshers : RefreshLoad(q, "p1")
    \/ \E q \in Refreshers : RefreshCheck(q)
    \/ \E q \in Refreshers, st \in RefreshStatuses :
           RefreshRespond(q, st, TokenResponse(IF ResponseOk(st) THEN "ok" ELSE "error",
                                               IF ResponseOk(st) THEN 121 ELSE 0))
    \/ \E q \in Refreshers : RefreshUpdate(q)

InitCredentials == FramesInit /\ BaselineInit /\ OAuthIdle /\ RefreshIdle /\ LibraryIdle

SpecCredentials == InitCredentials /\ [][CredentialsNext]_vars

\* One baseline build of p1 / f1 on every response the endpoints may give.
TokensNext ==
    \/ PutFigmaFrame("u1", "p1", "f1", TRUE, FALSE)
    \/ \E r \in Runs : BaselineLoad(r, "p1")
    \/ \E r \in Runs, data \in FigmaDataNames : BaselineFetch(r, TRUE, TRUE, data)
    \/ \E r \in Runs : BaselineTxFind(r)
    \/ \E r \in Runs : BaselineTxWrite(r)
    \/ \E r \in Runs : BaselineSettled(r)

SpecTokens == InitBaseline /\ [][TokensNext]_vars

InitCrypto ==
    /\ FramesInit /\ BaselineInit /\ OAuthIdle /\ RefreshIdle
    /\ CryptoInit /\ ComponentsIdle

SpecComponents == InitBaseline /\ [][ComponentsNext]_vars

SpecCrypto == InitCrypto /\ [][CryptoNext]_vars

(***************************************************************************)
(* ------------------------------- CLAIMS ------------------------------- *)
(***************************************************************************)

\* C1: frame extraction returns at most 500 entries, no entry is deeper
\* than depth 10, and no node deeper than depth 10 is examined.
C1_BoundedTraversal ==
    framesPc = "extracted" =>
        /\ Len(extracted.frames) <= 500
        /\ \A i \in 1..Len(extracted.frames) : extracted.frames[i].depth <= 10
        /\ extracted.deepest <= 10

\* Both ceilings were hit by some input: 500 frames returned from a document
\* that holds more, or a chain that goes deeper than 10 cut at depth 10.
C1_Witness ==
    /\ framesPc = "extracted"
    /\ \/ /\ Len(extracted.frames) = 500
          /\ Cardinality({n \in NodesOf(document) : n.type = "FRAME"}) > 500
       \/ /\ extracted.deepest = 10
          /\ \E n \in NodesOf(document) : Len(n.id) > 12

\* C2: every returned FrameSummary is that of a node of type FRAME whose
\* bounding box is present with strictly positive width and height.
C2_OnlyValidFrames ==
    framesPc = "extracted" =>
        LET valid == {n \in NodesOf(document) :
                         /\ n.type = "FRAME"
                         /\ n.box.present
                         /\ n.box.width > 0
                         /\ n.box.height > 0}
            ids   == {n.id : n \in valid}
        IN  \A i \in 1..Len(extracted.frames) : extracted.frames[i].id \in ids

\* A document holding a zero-width FRAME and a valid FRAME was extracted:
\* the valid one is returned.
C2_Witness ==
    /\ framesPc = "extracted"
    /\ Len(extracted.frames) = 1
    /\ \E n \in NodesOf(document) :
            n.type = "FRAME" /\ n.box.present /\ n.box.width = 0
    /\ \E n \in NodesOf(document) : n.type = "COMPONENT"

Pairs == Projects \X Frames

\* C3: whatever the interleaving of concurrent runs, the store holds at most
\* one row for every (projectId, frameId).
C3_NoDuplicateRows ==
    \A pf \in Pairs : Cardinality(RowsFor(snapshots, pf[1], pf[2])) <= 1

\* C4: two runs for the same (projectId, frameId) whose transactions did not
\* overlap leave exactly one row for the pair, and both return its id.
C4_SequentialUpsert ==
    \A r1, r2 \in Runs :
        ( /\ r1 # r2
          /\ runs[r1].pc = "done"
          /\ runs[r2].pc = "done"
          /\ runs[r1].projectId = runs[r2].projectId
          /\ runs[r1].figmaFrameId = runs[r2].figmaFrameId
          /\ <<runs[r1].projectId, runs[r1].figmaFrameId>> \notin raced )
        => /\ runs[r1].result = runs[r2].result
           /\ RowsFor(snapshots, runs[r1].projectId, runs[r1].figmaFrameId)
                = {s \in snapshots : s.id = runs[r1].result}
           /\ Cardinality(RowsFor(snapshots, runs[r1].projectId,
                                  runs[r1].figmaFrameId)) = 1

\* Two runs for the same pair ran one after the other, and the second one
\* wrote the row last.
C4_Witness ==
    \E r1, r2 \in Runs :
        /\ r1 # r2
        /\ runs[r1].pc = "done"
        /\ runs[r2].pc = "done"
        /\ runs[r1].projectId = runs[r2].projectId
        /\ runs[r1].figmaFrameId = runs[r2].figmaFrameId
        /\ <<runs[r1].projectId, runs[r1].figmaFrameId>> \notin raced
        /\ runs[r2].existing = runs[r1].result
        /\ \E s \in snapshots : s.id = runs[r1].result /\ s.data = r2

\* A callback request whose handler has run and whose response has not yet
\* reached the browser.
InFlight(c) == c.pc \in {"exchange", "store", "responded"}

WroteCredential(r) ==
    \E c \in credentials : c.writer = r

\* C5: a callback whose state decodes to a CSRF value different from the
\* cookie it came with (no cookie included) is answered 400 without a call
\* to the token endpoint and without a credential write; the token endpoint
\* receives exactly the calls of the callbacks that passed.
C5_CsrfMismatchFailsClosed ==
    /\ \A r \in Callbacks :
         LET c == callbacks[r]
         IN  ( /\ InFlight(c)
               /\ c.paramsOk /\ ~c.error
               /\ StateDecodes(c.state)
               /\ c.state.csrf # c.sentCsrf )
             => /\ c.pc = "responded"
                /\ c.status = "400_csrf"
                /\ ~c.passedCsrf
                /\ ~c.exchanged
                /\ ~WroteCredential(r)
    /\ tokenCalls = Cardinality({r \in Callbacks : callbacks[r].exchanged})

\* Two mismatching callbacks were rejected: one carrying an issued state
\* without the cookie, one carrying a forged state with the cookie present.
C5_Witness ==
    \E r1, r2 \in Callbacks :
        /\ callbacks[r1].pc = "responded"
        /\ callbacks[r1].status = "400_csrf"
        /\ callbacks[r1].sentCsrf = 0
        /\ callbacks[r1].state \in issued
        /\ callbacks[r2].pc = "responded"
        /\ callbacks[r2].status = "400_csrf"
        /\ callbacks[r2].sentCsrf > 0
        /\ callbacks[r2].state.csrf = ForeignNonce

\* C6: a credential of project P was written by a callback whose state
\* decoded, whose nonce matched its cookie, whose caller had a session and
\* belongs to P's organization, and whose token exchange returned a
\* well-formed 2xx body; a callback that ended any other way wrote nothing.
C6_CredentialOnlyWhenAuthorized ==
    /\ \A p \in Projects :
         findUniqueCredential(credentials, p).present =>
           /\ findUniqueCredential(credentials, p).writer \in Callbacks
           /\ LET c == callbacks[findUniqueCredential(credentials, p).writer]
              IN  /\ c.pc \in {"responded", "closed"}
                  /\ c.passedCsrf /\ c.exchanged
                  /\ c.state.projectId = p
                  /\ c.pc = "responded" =>
                       /\ c.status = "redirect_connected"
                       /\ c.paramsOk /\ ~c.error
                       /\ StateDecodes(c.state)
                       /\ c.sentCsrf > 0
                       /\ c.state.csrf = c.sentCsrf
                       /\ c.user \in Users
                       /\ <<c.user, OrgOf(p)>> \in Memberships
                       /\ c.response.kind = "ok"
    /\ \A r \in Callbacks :
         ( /\ InFlight(callbacks[r])
           /\ callbacks[r].status # "redirect_connected" )
         => ~WroteCredential(r)

\* A callback has just stored a credential, and another one, for the same
\* project and with the same nonce, was turned away for lack of membership.
C6_Witness ==
    \E p \in Projects, r \in Callbacks :
        /\ findUniqueCredential(credentials, p).present
        /\ callbacks[findUniqueCredential(credentials, p).writer].pc = "responded"
        /\ callbacks[r].pc = "responded"
        /\ callbacks[r].status = "redirect_access_denied"
        /\ callbacks[r].state.projectId = p

\* C7: of the callbacks that present the same state issued by Start, at most
\* one passes the CSRF comparison.
C7_NonceSingleUse ==
    \A r1, r2 \in Callbacks :
        ( /\ r1 # r2
          /\ callbacks[r1].pc # "idle"
          /\ callbacks[r2].pc # "idle"
          /\ callbacks[r1].state \in issued
          /\ callbacks[r1].state = callbacks[r2].state )
        => ~(callbacks[r1].passedCsrf /\ callbacks[r2].passedCsrf)

\* C8: when the callback handler has produced its response, it has deleted
\* the nonce cookie once and the return-URL cookie once, each after reading
\* it.
C8_ClearedExactlyOnce ==
    \A r \in Callbacks :
        callbacks[r].pc = "responded" =>
            /\ callbacks[r].csrfReads >= 1
            /\ callbacks[r].returnToReads >= 1
            /\ ~callbacks[r].deletedUnread
            /\ callbacks[r].csrfDeletes = 1
            /\ callbacks[r].returnToDeletes = 1

\* The outcome of the expiry test of a refresh run, from what it was given.
Expiring(f) == f.credential.accessTokenExpiresAt - f.checkedAt < ExpiryBufferMs

Checked(f) == f.pc \in {"calling", "updating", "done", "failed"}

\* C9 as stated: the token endpoint is called if and only if the expiry is
\* less than 2 minutes after now.
C9_RefreshIffExpiring ==
    \A q \in Refreshers :
        Checked(refreshers[q]) =>
            (refreshers[q].called <=> Expiring(refreshers[q]))

\* C9, amended: the token endpoint is called if and only if the expiry is
\* less than 2 minutes after now and client id and secret are configured;
\* with the expiry 2 minutes or more away the credential is returned as it
\* was, without a call and without a write; with the configuration missing
\* the refresh fails with status 500, without a call and without a write.
C9_RefreshIffExpiringAndConfigured ==
    /\ \A q \in Refreshers :
         LET f == refreshers[q]
         IN  Checked(f) =>
               /\ f.called <=> (Expiring(f) /\ env.clientId /\ env.clientSecret)
               /\ ~Expiring(f) =>
                    /\ f.pc = "done"
                    /\ f.returned = f.credential
                    /\ ~f.wrote
               /\ (Expiring(f) /\ ~(env.clientId /\ env.clientSecret)) =>
                    /\ f.pc = "failed"
                    /\ f.status = 500
                    /\ ~f.wrote
               /\ f.wrote => f.called
    /\ tokenCalls = Cardinality({q \in Refreshers : refreshers[q].called})
    /\ (\A q \in Refreshers : ~refreshers[q].wrote) =>
           credentials = {StoredCredential}

\* One run found the expiry exactly 2 minutes away and returned the
\* credential as it was; a later run found it nearer and called.
C9_Witness ==
    \E q1, q2 \in Refreshers :
        /\ refreshers[q1].pc = "done"
        /\ refreshers[q1].credential.accessTokenExpiresAt
             - refreshers[q1].checkedAt = ExpiryBufferMs
        /\ refreshers[q1].returned = refreshers[q1].credential
        /\ refreshers[q2].called
        /\ refreshers[q2].credential.accessTokenExpiresAt
             - refreshers[q2].checkedAt < ExpiryBufferMs

\* C10: a refresh that has written stored an expiry strictly greater than
\* the clock reading it was computed from plus the 2-minute buffer.
C10_RefreshedExpiryBeyondBuffer ==
    \A q \in Refreshers :
        refreshers[q].wrote =>
            /\ refreshers[q].newExpiresAt
                 > refreshers[q].computedAt + ExpiryBufferMs
            /\ refreshers[q].returned.accessTokenExpiresAt
                 > refreshers[q].computedAt + ExpiryBufferMs

\* C11: a refresh that was needed and that the token endpoint answered with
\* a non-2xx status ends in a FigmaApiError carrying that status; no token is
\* returned, no Figma API request leaves, and the run writes nothing.
C11_RefreshFailureSurfaces ==
    /\ \A q \in Refreshers :
         LET f == refreshers[q]
         IN  (f.called /\ f.upstream # 0 /\ ~ResponseOk(f.upstream)) =>
               /\ f.pc = "failed"
               /\ f.status = f.upstream
               /\ f.accessToken = NoToken
               /\ ~f.apiSent
               /\ ~f.wrote
    /\ \A q \in Refreshers :
         refreshers[q].apiSent => refreshers[q].pc = "done"
    /\ (\A q \in Refreshers : ~refreshers[q].wrote) =>
           \A p \in Projects :
               findUniqueCredential(credentials, p)
                 = IF p = "p1" THEN StoredCredential ELSE NoCredential

\* A refresh was answered 503 and failed; the credential is as it was.
C11_Witness ==
    \E q \in Refreshers :
        /\ refreshers[q].pc = "failed"
        /\ refreshers[q].called
        /\ refreshers[q].upstream = 503
        /\ credentials = {StoredCredential}

\* C12: whatever callbacks and refreshes have run, every project has at most
\* one credential row and row ids are unique; rows are added only by the
\* first store for a project, and callbacks that stored for the same project
\* wrote the same row.
C12_OneCredentialPerProject ==
    /\ \A p \in ProjectIds : Cardinality(CredentialsFor(credentials, p)) <= 1
    /\ \A c, o \in credentials : c.id = o.id => c = o
    /\ Cardinality(credentials) = nextCredentialId
    /\ \A r \in Callbacks :
         ( /\ callbacks[r].pc = "responded"
           /\ callbacks[r].status = "redirect_connected" )
         => Cardinality(CredentialsFor(credentials, callbacks[r].state.projectId)) = 1

\* Two callbacks stored for the same project with a refresh in between: the
\* project has one row, holding what the second callback wrote.
C12_Witness ==
    \E r1, r2 \in Callbacks, q \in Refreshers :
        /\ r1 # r2
        /\ callbacks[r1].pc = "responded"
        /\ callbacks[r1].status = "redirect_connected"
        /\ callbacks[r2].pc = "responded"
        /\ callbacks[r2].status = "redirect_connected"
        /\ callbacks[r1].state.projectId = callbacks[r2].state.projectId
        /\ refreshers[q].wrote
        /\ \E c \in credentials :
               /\ c.projectId = callbacks[r2].state.projectId
               /\ c.writer = r2
               /\ c.accessTokenExpiresAt # refreshers[q].newExpiresAt
        /\ Cardinality(credentials) = 1

\* C13: with ENCRYPTION_KEY set, the access token and the refresh token of
\* every stored credential are envelopes.
C13_EncryptedWhenKeyConfigured ==
    env.encryptionKey # "absent" =>
        \A c \in credentials :
            c.accessToken.encrypted /\ c.refreshToken.encrypted

\* C14: with the client id configured, Start answers every combination of
\* projectId and returnTo being present or absent with a 302 and sets both
\* cookies.
C14_StartOptionalParameters ==
    \A i \in 1..Len(starts) :
        env.clientId => (starts[i].status = 302 /\ starts[i].cookiesSet)

\* C15: a callback that completed successfully is redirected to the
\* destination it read from the return-URL cookie.
C15_SuccessRedirectsToReturnTo ==
    \A r \in Callbacks :
        ( /\ callbacks[r].pc = "responded"
          /\ callbacks[r].status \in {"redirect_connected", "redirect_success"} )
        => callbacks[r].location = callbacks[r].returnTo

\* C16: a frames request that met a project without a credential, at the
\* pre-check or inside the file fetch, is answered 400 with needsOAuth.
C16_NotConnectedIs400 ==
    (framesPc = "responded" /\ framesResponse.notConnected) =>
        (framesResponse.status = 400 /\ framesResponse.needsOAuth)

\* ---- the document order the claims about extraction refer to ----
Qualifying(n) ==
    /\ n.type = "FRAME"
    /\ n.box.present /\ n.box.width > 0 /\ n.box.height > 0

\* Depth of a node: pages are at depth 0, ids are paths from the root.
DepthOf(n) == Len(n.id) - 1

RECURSIVE PreOrder(_)
RECURSIVE PreOrderOfChildren(_, _, _)

\* Ids of the qualifying frames of children[lo..hi] and their descendants,
\* depth-first, a node before its descendants, siblings left to right.
PreOrderOfChildren(children, lo, hi) ==
    IF lo > hi THEN <<>>
    ELSE IF lo = hi THEN PreOrder(children[lo])
    ELSE LET mid == (lo + hi) \div 2
         IN  PreOrderOfChildren(children, lo, mid)
               \o PreOrderOfChildren(children, mid + 1, hi)

PreOrder(n) ==
    IF n.type = "null" THEN <<>>
    ELSE (IF Qualifying(n) /\ DepthOf(n) <= 10 THEN <<n.id>> ELSE <<>>)
           \o (IF n.hasChildren
               THEN PreOrderOfChildren(n.children, 1, Len(n.children))
               ELSE <<>>)

\* Pages in their given order; only CANVAS pages contribute.
RECURSIVE DocumentOrderFrom(_, _)
DocumentOrderFrom(pages, i) ==
    IF i > Len(pages) THEN <<>>
    ELSE (IF pages[i].type = "CANVAS" THEN PreOrder(pages[i]) ELSE <<>>)
           \o DocumentOrderFrom(pages, i + 1)

DocumentOrder(doc) ==
    IF doc.hasChildren THEN DocumentOrderFrom(doc.children, 1) ELSE <<>>

ExtractedIds == [i \in 1..Len(extracted.frames) |-> extracted.frames[i].id]

Extracted == framesPc \in {"extracted", "responded"} /\ document.type = "DOCUMENT"

\* Some children array of the (sub)tree holds a null entry.
RECURSIVE HasNullEntry(_)
HasNullEntry(n) ==
    \/ n.type = "null"
    \/ n.hasChildren /\ \E i \in 1..Len(n.children) : HasNullEntry(n.children[i])

\* Path a comes before path b in a depth-first pre-order walk: a is a proper
\* prefix of b, or a branches off to the left of b.
PathBefore(a, b) ==
    \E k \in 1..Len(b) :
        /\ Len(a) >= k - 1
        /\ SubSeq(a, 1, k - 1) = SubSeq(b, 1, k - 1)
        /\ (Len(a) = k - 1 \/ a[k] < b[k])

\* C17: for a document with more than 500 qualifying frames within the depth
\* limit, exactly 500 frames are returned and the response reports
\* total = 500 and truncated = true.
C17_TruncatedAt500 ==
    ( /\ framesPc = "responded"
      /\ framesResponse.status = 200
      /\ Len(DocumentOrder(document)) > 500 )
    => /\ Len(extracted.frames) = 500
       /\ framesResponse.total = 500
       /\ framesResponse.truncated

\* A page with 501 sibling frames was answered with 500.
C17_Witness ==
    /\ framesPc = "responded"
    /\ framesResponse.status = 200
    /\ Len(document.children) = 1
    /\ Len(document.children[1].children) > 500
    /\ framesResponse.total = 500
    /\ framesResponse.truncated

\* Every non-null node has at most one child, and below the page every node
\* is a qualifying frame: one chain of nested frames.
IsFrameChain(doc) ==
    /\ doc.hasChildren
    /\ \A n \in NodesOf(doc) :
         /\ n.hasChildren => Len(n.children) <= 1
         /\ Len(n.id) >= 2 => Qualifying(n)
    /\ \A i \in 1..Len(doc.children) : doc.children[i].type = "CANVAS"

C19_DocumentOrder ==
    Extracted =>
        LET order == DocumentOrder(document)
        IN  /\ \A i \in 1..(Len(ExtractedIds) - 1) :
                   PathBefore(ExtractedIds[i], ExtractedIds[i + 1])
            /\ \A i \in 1..Len(ExtractedIds) :
                   \E k \in 1..Len(order) : order[k] = ExtractedIds[i]
            /\ ~HasNullEntry(document)
                 => ExtractedIds = SubSeq(order, 1, Min(500, Len(order)))

\* Two pages holding more than 500 frames between them: the cut falls on
\* the second page, after every frame of the first.
C19_Witness ==
    /\ Extracted
    /\ Len(extracted.frames) = 500
    /\ Len(document.children) = 2
    /\ Len(DocumentOrder(document)) > 500
    /\ extracted.frames[500].id[1] = 2

\* A step of a createBaselineSnapshotForProject invocation or of its
\* promise chain: the invocations move and no request is answered.
BuildStep ==
    /\ runs' # runs
    /\ \A r \in Runs : runs[r].pc = "idle" => runs'[r].pc # "spawned"

\* What holds of the latest answered request in every state.
BackgroundBuildContained ==
    /\ (putResponse.status = 200 /\ putResponse.createBaseline) =>
          putResponse.runPc = "spawned"
    /\ putResponse.status = 200 =>
          projectFrame[putResponse.projectId] = putResponse.figmaFrameId
    /\ \A r \in Runs : runs[r].settled # "unhandled"

\* C20: a PUT with createBaseline is answered 200 when the build has only
\* been started; no step of the build changes the response or the saved
\* frame id, and no outcome of the build is left as an unhandled rejection.
C20_BuildInBackground ==
    /\ []BackgroundBuildContained
    /\ [][BuildStep => (putResponse' = putResponse
                         /\ projectFrame' = projectFrame)]_vars

\* A request with createBaseline was answered 200, its build failed
\* afterwards, and the frame id it saved is still the project's.
C20_Witness ==
    /\ putResponse.status = 200
    /\ putResponse.createBaseline
    /\ runs[putResponse.run].pc = "failed"
    /\ runs[putResponse.run].settled = "caught"
    /\ projectFrame[putResponse.projectId] = putResponse.figmaFrameId

\* The failures createBaselineSnapshotForProject raises before step 7.
FailuresBeforeUpsert ==
    {"Project not found", "not linked to a Figma file",
     "no Figma frame selected", "Failed to fetch Figma file",
     "Failed to fetch Figma variables", "Frame not found in Figma file"}

\* A step in which some invocation fails.
FailingStep ==
    \E r \in Runs : runs[r].pc # "failed" /\ runs'[r].pc = "failed"

\* An invocation that failed wrote nothing, and rows exist only for a
\* project with a linked file and a frame found in its document.
NoRowFromFailedRun ==
    /\ \A r \in Runs :
          runs[r].pc = "failed" =>
              /\ runs[r].failure \in FailuresBeforeUpsert
              /\ runs[r].result = 0
              /\ \A s \in snapshots : s.data # r
    /\ \A s \in snapshots :
          /\ s.projectId \in Projects
          /\ FigmaFileKey(s.projectId) # None
          /\ s.figmaFrameId \in FramesInFile

\* C21: an invocation that fails before its upsert (project missing, no
\* file key, no frame id, a fetch failing, frame not in the document)
\* creates and modifies no snapshot row.
C21_FailureWritesNothing ==
    /\ []NoRowFromFailedRun
    /\ [][FailingStep => snapshots' = snapshots]_vars

\* A row exists, and an invocation for a frame that is not in the document
\* failed after it was written.
C21_Witness ==
    /\ snapshots # {}
    /\ \E r \in Runs :
          /\ runs[r].pc = "failed"
          /\ runs[r].failure = "Frame not found in Figma file"
          /\ runs[r].figmaFrameId \notin FramesInFile

\* The fields of the envelope handed to decrypt.
StoredParts == Split(crypto.stored, <<>>)

\* C22: decrypt(encrypt(x)) = x, and decrypt raises an error for an envelope
\* whose ciphertext or tag was altered, that has not exactly three fields,
\* or whose IV or tag has not the length of 16 bytes in hex.
C22_RoundTripAndTamperDetection ==
    crypto.pc = "decrypted" =>
        /\ crypto.stored = crypto.envelope
             => crypto.result = DecryptResult(TRUE, crypto.plaintext)
        /\ ( \/ Len(StoredParts) # 3
             \/ Len(StoredParts[1]) # 2 * IV_LENGTH
             \/ Len(StoredParts[2]) # 2 * AUTH_TAG_LENGTH
             \/ StoredParts[2] # Split(crypto.envelope, <<>>)[2]
             \/ StoredParts[3] # Split(crypto.envelope, <<>>)[3] )
             => ~crypto.result.ok

\* C23: the depth of a returned frame is its nesting depth below the page:
\* 0 for a direct child of a page, k for a frame k levels below such a
\* frame.  (Ids are paths from the document: a child of a page has an id of
\* length 2.)
C23_DepthCountedFromPage ==
    Extracted =>
        \A i \in 1..Len(extracted.frames) :
            extracted.frames[i].depth = Len(extracted.frames[i].id) - 2

\* C24: when a child or a page makes the extraction throw (a null entry),
\* the remaining siblings are still processed: the result holds the
\* qualifying frames of every other node, in order, up to the frame ceiling.
C24_SiblingsSurviveFailure ==
    (Extracted /\ HasNullEntry(document)) =>
        LET order == DocumentOrder(document)
        IN  ExtractedIds = SubSeq(order, 1, Min(500, Len(order)))

\* An invocation that got both responses and found the selected frame.
ReachedExtraction(r) == runs[r].figmaData # None

\* C25: each token family that can be extracted from the responses is
\* extracted and stored, whatever happens to the other families.
C25_FamiliesIndependent ==
    \A r \in Runs :
        ReachedExtraction(r) =>
            \A family \in Families :
                ~ExtractFamily(family, FigmaData(runs[r].figmaData)).threw
                => /\ runs[r].pc # "failed"
                   /\ runs[r].tokens[family]
                        = ExtractFamily(family, FigmaData(runs[r].figmaData)).names
                   /\ runs[r].pc = "done"
                        => \E s \in snapshots : s.id = runs[r].result

\* The nodes of the selected frame's tree that are component-like, have a
\* box of positive width and height and lie at most 10 levels below it.
\* (Ids are paths from the selected frame: the length of an id is the depth.)
ComponentNodes(frame) ==
    {n \in NodesOf(frame) :
        /\ n.type \in {"COMPONENT", "INSTANCE", "FRAME", "GROUP"}
        /\ n.box.present /\ n.box.width > 0 /\ n.box.height > 0
        /\ Len(n.id) <= 10}

ReturnedComponents ==
    {components.result.found[i] : i \in 1..Len(components.result.found)}

\* C26: for a tree of nodes (no null entries), extractComponentsFromNode
\* returns one summary for each component-like node with a positive box at
\* depth 10 or less, and nothing else.
C26_ExactlyComponentNodes ==
    (components.pc = "extracted" /\ ~HasNullEntry(components.frame)) =>
        /\ ~components.result.threw
        /\ ReturnedComponents = {n.id : n \in ComponentNodes(components.frame)}
        /\ Len(components.result.found) = Cardinality(ReturnedComponents)

\* A chain reaching below depth 10, and a frame holding a group with a box
\* next to an instance of zero height, were extracted.
C26_Witness ==
    /\ components.pc = "extracted"
    /\ ~HasNullEntry(components.frame)
    /\ \/ /\ \E n \in NodesOf(components.frame) : Len(n.id) > 10
          /\ Len(components.result.found) = 11
       \/ /\ Len(components.frame.children) = 2
          /\ components.frame.children[1].type = "GROUP"
          /\ components.frame.children[1].box.present
          /\ components.frame.children[2].type = "INSTANCE"
          /\ components.frame.children[2].box.height = 0
          /\ components.result.found = <<<<>>, <<1>>>>

\* The refreshes whose token response was written to the store.
Writers == {q \in Refreshers : refreshers[q].wrote}

\* No refresh is between loading the credential and its last step.
RefreshesSettled ==
    \A q \in Refreshers : refreshers[q].pc \in {"idle", "done", "failed", "notconnected"}

\* The refresh whose token pair the provider issued last.
LastIssued == CHOOSE q \in Writers :
                  \A o \in Writers : refreshers[o].issuedToken <= refreshers[q].issuedToken

\* C27: once the concurrent refreshes of a credential have finished, the
\* stored access token, refresh token and expiry are those of the response
\* the provider issued last.
C27_StoredTokensAreLastIssued ==
    (RefreshesSettled /\ Writers # {}) =>
        LET c == findUniqueCredential(credentials, "p1")
            q == refreshers[LastIssued]
        IN  /\ c.accessToken.plain = q.issuedToken
            /\ c.refreshToken.plain = q.issuedToken
            /\ c.accessTokenExpiresAt = q.newExpiresAt

\* The caller has a session and belongs to the organization of the project.
CallerIsMember ==
    /\ framesRequest.user # None
    /\ framesRequest.projectId \in Projects
    /\ <<framesRequest.user, OrgOf(framesRequest.projectId)>> \in Memberships

\* C28: GET /api/figma/frames answers 200 only to a member of the project's
\* organization; any other caller gets 401 or 403 and no request to
\* api.figma.com is made for them.
C28_FramesOnlyForMembers ==
    /\ (framesPc = "responded" /\ framesResponse.status = 200) => CallerIsMember
    /\ (framesPc # "idle" /\ ~CallerIsMember) =>
           /\ ~framesRequest.figmaRequested
           /\ framesPc = "responded" => framesResponse.status \in {401, 403}

\* Callback r passed validation with a state that carries no project id.
WithoutProject(r) ==
    /\ callbacks[r].passedCsrf
    /\ callbacks[r].user # None
    /\ callbacks[r].state.projectId = None

\* C29 (state part): a callback without a project id that exchanged the code
\* and got a valid token response is redirected with the success indicator.
C29_Redirected ==
    \A r \in Callbacks :
        (/\ WithoutProject(r)
         /\ callbacks[r].pc = "responded"
         /\ callbacks[r].exchanged
         /\ callbacks[r].response.kind = "ok")
        => callbacks[r].status = "redirect_success"

C30_TotalAndTruncated ==
    (framesPc = "responded" /\ framesResponse.status = 200) =>
        /\ framesResponse.total = Len(extracted.frames)
        /\ framesResponse.truncated <=> (Len(extracted.frames) = 500)
        /\ (Len(DocumentOrder(document)) = 500 /\ ~HasNullEntry(document))
               => framesResponse.truncated
        /\ Len(extracted.frames) < 500 => ~framesResponse.truncated

\* A page of exactly 500 sibling frames, all of them returned, was answered
\* with truncated = true.
C30_Witness ==
    /\ framesPc = "responded"
    /\ framesResponse.status = 200
    /\ Len(document.children) = 1
    /\ Len(document.children[1].children) = 500
    /\ ExtractedIds = DocumentOrder(document)
    /\ framesResponse.total = 500
    /\ framesResponse.truncated

\* A chain of frames reaching below the depth ceiling was answered with the
\* frames above the ceiling and truncated = false.
C30_DepthDropNotTruncated ==
    /\ framesPc = "responded"
    /\ framesResponse.status = 200
    /\ IsFrameChain(document)
    /\ \E n \in NodesOf(document) : Len(n.id) > 12
    /\ framesResponse.total = 10
    /\ ~framesResponse.truncated

====
